---- MODULE Spec2Model ----
(***************************************************************************)
(* Model of the personalised health QA agent: the six-stage LangGraph      *)
(* pipeline of app/agent.py and the two chat handlers of app/main.py that  *)
(* drive it (synchronous reply and server-sent event stream).              *)
(*                                                                         *)
(* Representation choices                                                  *)
(*  - a Python dict is a TLA+ function whose DOMAIN is the set of keys     *)
(*    that are present; dict.get(k) of an absent key is None;              *)
(*  - message texts, the question and the answer are sequences of          *)
(*    characters, so that strip() and lower() are computed;                *)
(*  - document texts and source names are opaque strings whose length is   *)
(*    given by StrLen, which is all _format_context looks at;              *)
(*  - numbers are exact: the mean and the variance are rationals <<p, q>>  *)
(*    and the standard deviation is carried by its square; values at the   *)
(*    bottom of the double range are whole multiples of 2^-1074 and their  *)
(*    results are rounded as IEEE 754 rounds them.                         *)
(***************************************************************************)
EXTENDS Integers, Sequences, FiniteSets, TLC

(* ---------------------------------------------------------------------- *)
(* Bounds of the model                                                     *)
(* ---------------------------------------------------------------------- *)
MaxHits == 2
MaxPoints == 8

(* ---------------------------------------------------------------------- *)
(* Program constants                                                       *)
(* ---------------------------------------------------------------------- *)
max_chars == 4000
max_context_messages == 12
SearchLimit == 6

Runs == {1, 2}

STAGES == <<"parse_user", "pull_metrics", "analyze_metrics",
            "retrieve_guidance", "safety", "answer">>

(* ---------------------------------------------------------------------- *)
(* Python values                                                           *)
(* ---------------------------------------------------------------------- *)
\* None where a character sequence is expected (question, answer)
NoneV == <<"<None>">>

\* the empty dict
EmptyDict == [k \in {} |-> 0]

Get(d, k) == IF k \in DOMAIN d THEN d[k] ELSE NoneV

\* d.get(k) or dflt, for character-sequence values
GetOrStr(d, k) == IF k \in DOMAIN d /\ d[k] # NoneV THEN d[k] ELSE <<>>

\* d.get(k) or [], for list values
GetOrList(d, k) == IF k \in DOMAIN d THEN d[k] ELSE <<>>

\* a or b on plain strings: the empty string and None ("") are falsy
OrStr(a, b) == IF a # "" THEN a ELSE b

Whitespace == {" ", "\n", "\t"}

RECURSIVE LStrip(_)
LStrip(s) == IF s # <<>> /\ Head(s) \in Whitespace THEN LStrip(Tail(s)) ELSE s

RECURSIVE RStrip(_)
RStrip(s) ==
  IF s # <<>> /\ s[Len(s)] \in Whitespace THEN RStrip(SubSeq(s, 1, Len(s) - 1)) ELSE s

\* str.strip()
Strip(s) == RStrip(LStrip(s))

\* messages[-limit:]
LastN(s, n) == IF Len(s) <= n THEN s ELSE SubSeq(s, Len(s) - n + 1, Len(s))

(* ---------------------------------------------------------------------- *)
(* Inputs: request bodies and collaborator data                            *)
(* ---------------------------------------------------------------------- *)
MsgStroke == <<" ", "S", "t", "r", "o", "k", "e", "?", "\n">>
MsgHi == <<"h", "i">>
MsgBlank == <<" ", " ">>
Messages == {MsgStroke, MsgHi, MsgBlank, <<>>}

IsoStart == "2025-09-13T00:00:00Z"
IsoEnd == "2025-09-20T00:00:00Z"
NoTimeframe == [start |-> "<absent>", end |-> "<absent>"]
Timeframes == {NoTimeframe,
               [start |-> IsoStart, end |-> IsoEnd],
               [start |-> "", end |-> IsoEnd],
               [start |-> IsoStart, end |-> ""],
               [start |-> "yesterday", end |-> IsoEnd]}

UserIds == {"u1", ""}
KindLists == {<<>>, <<"hr">>, <<"hr", "steps">>}

Bodies == [user_id : UserIds, message : Messages,
           timeframe : Timeframes, metric_kinds : KindLists]

(* ---------------------------------------------------------------------- *)
(* State of the program                                                    *)
(* ---------------------------------------------------------------------- *)
VARIABLES
  settings,     \* config.settings: default_metric_kinds, available_metric_kinds
  convStore,    \* Firestore messages collection, in created_at order
  pc,           \* per request: position of the handler / of the graph run
  mode,         \* per request: "sync" (chat) or "stream" (chat_stream)
  body,         \* per request: the ChatRequest
  state,        \* per request: the AgentState of the run
  executed,     \* per request: the stages that have run, in order
  events,       \* per request: server-sent events yielded so far
  final_answer, \* per request: local of sse_gen / reply of chat
  response,     \* per request: what the synchronous caller received
  failure,      \* per request: the exception that ended the run, if any
  calls,        \* per request: collaborator calls made, in order
  hits,         \* per request: the hits client.search returned to the run
  prompt,       \* per request: the user prompt sent to the language model
  collection    \* the Qdrant collection: whether it exists, its points by id

vars == <<settings, convStore, pc, mode, body, state, executed, events,
          final_answer, response, failure, calls, hits, prompt, collection>>

\* the Qdrant server before the collection has been created
NoCollection == [exists |-> FALSE, points |-> EmptyDict]

NoFailure == [stage |-> "", message |-> ""]
NoResponse == [status |-> "none"]
NoPrompt == [sent |-> FALSE]

(* ---------------------------------------------------------------------- *)
(* AgentState: channels and their reducers                                 *)
(* ---------------------------------------------------------------------- *)
\* channels annotated with operator.add
AddChannels == {"metric_kinds", "metrics", "anomalies", "relevant_chunks",
                "citations", "safety_warnings"}

\* no channel appends messages: an update of messages overwrites the field
MessageChannelsNone == {}

\* channel annotated with add_messages (new messages carry fresh ids: append)
MessageChannels == {"messages"}

\* the state after a node's partial update has been applied by the graph
Merge(st, upd) ==
  [k \in (DOMAIN st) \cup (DOMAIN upd) |->
     IF k \notin DOMAIN upd THEN st[k]
     ELSE IF k \in AddChannels \cup MessageChannels
          THEN GetOrList(st, k) \o upd[k]
          ELSE upd[k]]

HumanMessage(c) == [type |-> "human", content |-> c]
AIMessage(c) == [type |-> "ai", content |-> c]

(* ---------------------------------------------------------------------- *)
(* Conversation store (firestore_memory.py)                                *)
(* ---------------------------------------------------------------------- *)
RECURSIVE UserTurns(_, _)
UserTurns(store, uid) ==
  IF store = <<>> THEN <<>>
  ELSE IF Head(store).user_id = uid
       THEN <<[role |-> Head(store).role, content |-> Head(store).content]>>
            \o UserTurns(Tail(store), uid)
       ELSE UserTurns(Tail(store), uid)

fetch_context(store, uid, limit) == LastN(UserTurns(store, uid), limit)

append_turn(store, uid, role, content) ==
  Append(store, [user_id |-> uid, role |-> role, content |-> content])

RECURSIVE _to_lc_history(_)
_to_lc_history(context) ==
  IF context = <<>> THEN <<>>
  ELSE <<IF Head(context).role = "assistant"
         THEN AIMessage(Head(context).content)
         ELSE HumanMessage(Head(context).content)>>
       \o _to_lc_history(Tail(context))

\* _default_timeframe(7): the trailing seven days, as ISO 8601 strings
_default_timeframe == [start |-> "2025-09-13T00:00:00+00:00",
                       end |-> "2025-09-20T00:00:00+00:00"]

\* the dict chat and chat_stream hand to the graph
initial_state(store, cfg, b) ==
  [messages |-> _to_lc_history(fetch_context(store, b.user_id, max_context_messages))
                  \o <<HumanMessage(b.message)>>,
   user_id |-> b.user_id,
   timeframe |-> IF b.timeframe = NoTimeframe THEN _default_timeframe ELSE b.timeframe,
   metric_kinds |-> IF b.metric_kinds # <<>> THEN b.metric_kinds
                    ELSE cfg.default_metric_kinds,
   metrics |-> <<>>,
   anomalies |-> <<>>,
   relevant_chunks |-> <<>>,
   citations |-> <<>>,
   safety_warnings |-> <<>>]

(* ---------------------------------------------------------------------- *)
(* Stage 1: node_parse_user                                                *)
(* ---------------------------------------------------------------------- *)
RECURSIVE LastHuman(_)
LastHuman(msgs) ==
  IF msgs = <<>> THEN NoneV
  ELSE IF msgs[Len(msgs)].type = "human" THEN Strip(msgs[Len(msgs)].content)
       ELSE LastHuman(SubSeq(msgs, 1, Len(msgs) - 1))

node_parse_user(st) ==
  [question |-> LastHuman(st.messages),
   metric_kinds |-> GetOrList(st, "metric_kinds"),
   metrics |-> <<>>,
   anomalies |-> <<>>,
   relevant_chunks |-> <<>>,
   citations |-> <<>>,
   safety_warnings |-> <<>>]

(* ---------------------------------------------------------------------- *)
(* Stage 2: node_pull_metrics and the metrics store                        *)
(* ---------------------------------------------------------------------- *)
\* datetime.fromisoformat on the strings the model uses, as a day number;
\* a string outside the table is not ISO 8601 and raises ValueError
IsoDay ==
  [s \in {"2025-09-13T00:00:00Z", "2025-09-13T00:00:00+00:00",
          "2025-09-20T00:00:00Z", "2025-09-20T00:00:00+00:00"} |->
     IF s \in {"2025-09-13T00:00:00Z", "2025-09-13T00:00:00+00:00"} THEN 13 ELSE 20]

IsIso(s) == s \in DOMAIN IsoDay

\* a stored value: a number, a numeric string, NaN, infinity, or something
\* float() rejects (a non-numeric string, or None for a missing field)
Num(n) == <<"num", n>>
NumStr(n) == <<"numstr", n>>
NaN == <<"nan", 0>>
PosInf == <<"inf", 0>>
NotNum == <<"str", 0>>
NoValue == <<"none", 0>>
\* the float k * 2^-1074: k times the smallest positive double
Tiny(k) == <<"tiny", k>>

\* float(x) succeeds: float("nan") and float("inf") are floats as well
FloatOk(v) == v[1] \in {"num", "numstr", "nan", "inf", "tiny"}

\* float(x) where it succeeds
Float(v) == IF v[1] = "numstr" THEN Num(v[2]) ELSE v

\* float(x), or None when float(x) raises
_safe_float(x) == IF FloatOk(x) THEN Float(x) ELSE NoValue

\* math.isfinite on a float
IsFinite(v) == v[1] \in {"num", "tiny"}

RawDoc(k, t, v) == [kind |-> k, ts |-> t, value |-> v, unit |-> "u"]

\* contents of one user's metrics collection, ordered by ts
MetricDocs ==
  { <<>>,
    <<RawDoc("hr", 14, Num(60)), RawDoc("hr", 15, Num(62)), RawDoc("hr", 16, Num(200))>>,
    <<RawDoc("hr", 12, Num(50)), RawDoc("steps", 14, NotNum),
      RawDoc("steps", 15, Num(5)), RawDoc("sleep", 16, Num(7)), RawDoc("hr", 17, Num(70))>>,
    <<RawDoc("hr", 13, Num(60)), RawDoc("hr", 14, Num(60)), RawDoc("hr", 15, Num(60)),
      RawDoc("hr", 16, Num(60)), RawDoc("hr", 17, Num(60)), RawDoc("hr", 18, Num(60)),
      RawDoc("hr", 19, Num(60)), RawDoc("hr", 20, Num(100))>>,
    <<RawDoc("hr", 14, NaN), RawDoc("steps", 15, PosInf),
      RawDoc("sleep", 16, NumStr(7)), RawDoc("sleep", 17, NoValue)>>,
    <<RawDoc("hr", 14, Num(60)), RawDoc("hr", 15, NaN)>>,
    [i \in 1..8 |-> RawDoc("hrv", 12 + i, IF i = 8 THEN Num(10) ELSE Num(6))] }

RECURSIVE Uniq(_)
\* list(dict.fromkeys(kinds))
Uniq(ks) ==
  IF ks = <<>> THEN <<>>
  ELSE LET init == Uniq(SubSeq(ks, 1, Len(ks) - 1))
           last == ks[Len(ks)]
       IN IF \E i \in 1..Len(init) : init[i] = last THEN init ELSE Append(init, last)

InList(x, l) == \E i \in 1..Len(l) : l[i] = x

RECURSIVE get_user_metrics_rows(_, _, _, _)
get_user_metrics_rows(docs, lo, hi, kinds) ==
  IF docs = <<>> THEN <<>>
  ELSE LET d == Head(docs)
           rest == get_user_metrics_rows(Tail(docs), lo, hi, kinds)
           inWindow == d.ts >= lo /\ d.ts <= hi
           \* server-side "in" filter for up to 10 distinct kinds,
           \* client-side filter when more than 10 kinds were passed
           kindOk == /\ (kinds # <<>> /\ Len(Uniq(kinds)) <= 10) => InList(d.kind, Uniq(kinds))
                     /\ (kinds # <<>> /\ Len(kinds) > 10) => InList(d.kind, kinds)
       IN IF inWindow /\ kindOk /\ FloatOk(d.value)
          THEN <<[kind |-> d.kind, ts |-> d.ts, value |-> Float(d.value), unit |-> d.unit]>> \o rest
          ELSE rest

\* get_user_metrics once both ISO strings have parsed
get_user_metrics(docs, start_iso, end_iso, kinds) ==
  get_user_metrics_rows(docs, IsoDay[start_iso], IsoDay[end_iso], kinds)

\* the guard without the test of user_id
PullShortCircuitNoUser(st) ==
  \/ Get(st, "timeframe").start = ""
  \/ Get(st, "timeframe").end = ""

\* the guard of node_pull_metrics: no identity or no window, no store call
PullShortCircuit(st) ==
  \/ Get(st, "user_id") = ""
  \/ Get(st, "timeframe").start = ""
  \/ Get(st, "timeframe").end = ""

\* the cleaned copy of one fetched point
CleanPoint(p) ==
  [kind |-> p.kind, ts |-> p.ts, value |-> _safe_float(p.value), unit |-> p.unit]

node_pull_metrics(st, docs) ==
  IF PullShortCircuit(st) THEN [metrics |-> <<>>]
  ELSE LET data == get_user_metrics(docs, st.timeframe.start, st.timeframe.end,
                                    GetOrList(st, "metric_kinds"))
       IN [metrics |-> [i \in 1..Len(data) |-> CleanPoint(data[i])]]

(* ---------------------------------------------------------------------- *)
(* Stage 3: node_analyze                                                   *)
(* ---------------------------------------------------------------------- *)
RECURSIVE SumSeq(_)
SumSeq(s) == IF s = <<>> THEN 0 ELSE Head(s) + SumSeq(Tail(s))

RECURSIVE SumSqDev(_, _, _)
\* sum of the squared deviations from the mean S/n, times n*n
SumSqDev(s, S, n) ==
  IF s = <<>> THEN 0 ELSE (n * Head(s) - S) * (n * Head(s) - S) + SumSqDev(Tail(s), S, n)

\* statistics.stdev: the sample standard deviation, divisor n - 1
stdev2Sample(vals) ==
  LET n == Len(vals)
      S == SumSeq(vals)
  IN <<SumSqDev(vals, S, n), n * n * (n - 1)>>

\* statistics.pstdev: square root of (sum of squared deviations / n);
\* the result is carried by its square, the rational <<p, q>>
pstdev2(vals) ==
  LET n == Len(vals)
      S == SumSeq(vals)
  IN <<SumSqDev(vals, S, n), n * n * n>>

AllFinite(vals) == \A i \in 1..Len(vals) : IsFinite(vals[i])

\* every value is a multiple of 2^-1074 (the model mixes no tiny and ordinary
\* values in one group)
AllTiny(vals) == \A i \in 1..Len(vals) : vals[i][1] = "tiny"

\* p/q rounded to the nearest integer, ties to even: what IEEE 754 does to a
\* result at the bottom of the double range, where the doubles are the
\* whole multiples of 2^-1074
RoundHalfEven(p, q) ==
  LET f == p \div q
      r == p % q
  IN IF 2 * r < q THEN f
     ELSE IF 2 * r > q THEN f + 1
     ELSE IF f % 2 = 0 THEN f ELSE f + 1

\* the square root of p/q rounded to the nearest integer not above hi, ties
\* to even
RoundSqrt(p, q, hi) ==
  CHOOSE s \in 0..hi :
    LET below == (2 * s - 1) * (2 * s - 1) * q
        above == (2 * s + 1) * (2 * s + 1) * q
    IN /\ s = 0 \/ below < 4 * p \/ (below = 4 * p /\ s % 2 = 0)
       /\ 4 * p < above \/ (4 * p = above /\ s % 2 = 0)

\* float(pstdev(values)) of tiny values, in units of 2^-1074: the exact
\* root of the exact variance, rounded once (statistics, Python 3.11)
pstdevTiny(ks) ==
  LET n == Len(ks)
      S == SumSeq(ks)
  IN RoundSqrt(SumSqDev(ks, S, n), n * n * n, S)

\* the numbers of a list of finite floats
Nums(vals) == [i \in 1..Len(vals) |-> vals[i][2]]

\* a float as a rational: NaN is 0/0 and infinity is 1/0
Rational(v) == IF IsFinite(v) THEN <<v[2], 1>> ELSE IF v = NaN THEN <<0, 0>> ELSE <<1, 0>>

\* statistics.mean: a NaN among the values gives NaN, else an infinity gives infinity
mean(vals) ==
  IF AllFinite(vals) THEN <<SumSeq(Nums(vals)), Len(vals)>>
  ELSE IF \E i \in 1..Len(vals) : vals[i] = NaN THEN <<0, 0>> ELSE <<1, 0>>

\* statistics.pstdev on two or more values, one of them NaN or infinite: the
\* Python 3.11 library raises AttributeError, earlier libraries answer NaN
PstdevRaises(vals) == Len(vals) >= 2 /\ ~AllFinite(vals)

\* _mean_sd for a non-empty list: the mean as a rational and the stdev squared.
\* For ordinary values the rounding of the floats (relative error 2^-53) is
\* left out; for tiny values the mean and the stdev are the rounded doubles,
\* in units of 2^-1074
_mean_sd(vals) ==
  IF Len(vals) = 1 THEN [mean |-> Rational(vals[1]), stdev2 |-> <<0, 1>>]
  ELSE IF AllTiny(vals)
       THEN [mean |-> <<RoundHalfEven(SumSeq(Nums(vals)), Len(vals)), 1>>,
             stdev2 |-> <<pstdevTiny(Nums(vals)) * pstdevTiny(Nums(vals)), 1>>]
  ELSE IF AllFinite(vals) THEN [mean |-> mean(vals), stdev2 |-> pstdev2(Nums(vals))]
  ELSE [mean |-> mean(vals), stdev2 |-> <<0, 0>>]

\* every point with a kind is grouped, whatever its value
GroupedAnyValue(p) == p.kind # ""

\* the points node_analyze groups: v is not None and the kind is truthy
Grouped(p) == _safe_float(p.value) # NoValue /\ p.kind # ""

RECURSIVE KindOrder(_)
\* keys of by_kind in insertion order
KindOrder(points) ==
  IF points = <<>> THEN <<>>
  ELSE LET init == KindOrder(SubSeq(points, 1, Len(points) - 1))
           p == points[Len(points)]
       IN IF ~Grouped(p) \/ InList(p.kind, init) THEN init ELSE Append(init, p.kind)

RECURSIVE ValuesOf(_, _)
\* by_kind[k]
ValuesOf(points, k) ==
  IF points = <<>> THEN <<>>
  ELSE IF Head(points).kind = k /\ Grouped(Head(points))
       THEN <<_safe_float(Head(points).value)>> \o ValuesOf(Tail(points), k)
       ELSE ValuesOf(Tail(points), k)

\* a value on the bound counts as an outlier
IsOutlierInclusive(v, m, s2) ==
  LET d == v * m[2] - m[1]
  IN 4 * d * d * s2[2] >= 25 * s2[1] * m[2] * m[2]

\* v < mu - 2.5 * sd or v > mu + 2.5 * sd, with mu = m[1]/m[2], sd*sd = s2[1]/s2[2]:
\* |v - mu| > 2.5 * sd  iff  4 * (v*m[2] - m[1])^2 * s2[2] > 25 * s2[1] * m[2]^2
IsOutlier(v, m, s2) ==
  LET d == v * m[2] - m[1]
  IN 4 * d * d * s2[2] > 25 * s2[1] * m[2] * m[2]

\* the same test on tiny values: lo, hi = mu - 2.5 * sd, mu + 2.5 * sd, where
\* the product 2.5 * sd is rounded to a whole multiple of 2^-1074 and the sum
\* and the difference are exact
IsOutlierTiny(v, mu, sd) ==
  LET w == RoundHalfEven(5 * sd, 2)
  IN v < mu - w \/ v > mu + w

RECURSIVE CountOutliers(_, _, _)
CountOutliers(vals, m, s2) ==
  IF vals = <<>> THEN 0
  ELSE (IF IsOutlier(Head(vals), m, s2) THEN 1 ELSE 0) + CountOutliers(Tail(vals), m, s2)

StatsEntry(k, vals) ==
  LET ms == _mean_sd(vals)
  IN [kind |-> k, mean |-> ms.mean, stdev2 |-> ms.stdev2, n |-> Len(vals)]

\* "<kind>: <count> outlier(s) beyond +-2.5 sigma"
AnomalyFlag(k, count) == [kind |-> k, count |-> count]

\* the bounds are mu - 2 * sd and mu + 2 * sd
GroupFlagsTwoSigma(k, vals) ==
  LET ms == _mean_sd(vals)
      c == Cardinality({i \in 1..Len(vals) :
             LET d == vals[i][2] * ms.mean[2] - ms.mean[1]
             IN d * d * ms.stdev2[2] > 4 * ms.stdev2[1] * ms.mean[2] * ms.mean[2]})
  IN IF ms.stdev2[1] > 0 /\ c > 0 THEN <<AnomalyFlag(k, c)>> ELSE <<>>

\* the flags of one group: none unless sd > 0 and some value is an outlier
GroupFlags(k, vals) ==
  LET ms == _mean_sd(vals)
      c == IF Len(vals) >= 2 /\ AllTiny(vals)
           THEN Cardinality({i \in 1..Len(vals) :
                  IsOutlierTiny(vals[i][2], ms.mean[1], pstdevTiny(Nums(vals)))})
           ELSE CountOutliers(Nums(vals), ms.mean, ms.stdev2)
  IN IF ms.stdev2[1] > 0 /\ c > 0 THEN <<AnomalyFlag(k, c)>> ELSE <<>>

RECURSIVE AnalyzeStats(_, _)
AnalyzeStats(points, ks) ==
  IF ks = <<>> THEN <<>>
  ELSE <<StatsEntry(Head(ks), ValuesOf(points, Head(ks)))>> \o AnalyzeStats(points, Tail(ks))

RECURSIVE AnalyzeFlags(_, _)
AnalyzeFlags(points, ks) ==
  IF ks = <<>> THEN <<>>
  ELSE GroupFlags(Head(ks), ValuesOf(points, Head(ks))) \o AnalyzeFlags(points, Tail(ks))

\* stats is an ordered dict: a list of entries with distinct kinds
node_analyze(st) ==
  LET points == GetOrList(st, "metrics")
      ks == KindOrder(points)
  IN [stats |-> AnalyzeStats(points, ks), anomalies |-> AnalyzeFlags(points, ks)]

(* ---------------------------------------------------------------------- *)
(* Stage 4: node_retrieve                                                  *)
(* ---------------------------------------------------------------------- *)
\* payload.get(k): an absent key and None are both the falsy ""
PGet(p, k) == IF k \in DOMAIN p THEN p[k] ELSE ""

Hit(p, sc) == [payload |-> p, score |-> sc]

\* the points the index can return
HitPool ==
  { Hit([text |-> "T1981"], 9),
    Hit([page_content |-> "T10", url |-> "http://x", doc_id |-> "d2", chunk_id |-> "c2"], 5),
    Hit([text |-> "T4000", source |-> "a.md", id |-> "d1", title |-> "A"], 7) }

RECURSIVE SeqsUpTo(_, _)
\* all lists over S of length at most n
SeqsUpTo(S, n) ==
  IF n = 0 THEN {<<>>}
  ELSE LET shorter == SeqsUpTo(S, n - 1)
       IN shorter \cup {Append(q, x) : q \in {t \in shorter : Len(t) = n - 1}, x \in S}

Min(a, b) == IF a < b THEN a ELSE b

\* what client.search can answer: at most `limit` ranked hits
SearchResults == SeqsUpTo(HitPool, Min(MaxHits, SearchLimit))

ChunkOf(hit) ==
  LET payload == hit.payload
      meta == [id |-> OrStr(PGet(payload, "id"), PGet(payload, "doc_id")),
               source |-> OrStr(PGet(payload, "source"),
                                OrStr(PGet(payload, "url"), PGet(payload, "path"))),
               title |-> PGet(payload, "title"),
               chunk |-> OrStr(PGet(payload, "chunk"), PGet(payload, "chunk_id"))]
  IN [text |-> OrStr(PGet(payload, "text"), PGet(payload, "page_content")),
      score |-> hit.score,
      metadata |-> meta]

CiteOf(hit) ==
  LET meta == ChunkOf(hit).metadata
  IN [id |-> meta.id, source |-> meta.source, score |-> hit.score]

RECURSIVE MapChunks(_)
MapChunks(results) ==
  IF results = <<>> THEN <<>> ELSE <<ChunkOf(Head(results))>> \o MapChunks(Tail(results))

RECURSIVE MapCitesReversed(_)
\* the citations are built in the opposite order
MapCitesReversed(results) ==
  IF results = <<>> THEN <<>>
  ELSE MapCitesReversed(Tail(results)) \o <<CiteOf(Head(results))>>

RECURSIVE MapCites(_)
MapCites(results) ==
  IF results = <<>> THEN <<>> ELSE <<CiteOf(Head(results))>> \o MapCites(Tail(results))

\* the guard is never taken
RetrieveShortCircuitNever(st) == FALSE

\* the guard of node_retrieve: nothing to search for
RetrieveShortCircuit(st) == Strip(GetOrStr(st, "question")) = <<>>

RECURSIVE Enrich(_, _)
\* the "<kind> mean <value>" fragments for the well-known kinds present in stats
Enrich(stats, ks) ==
  IF ks = <<>> THEN <<>>
  ELSE LET here == {i \in 1..Len(stats) : stats[i].kind = Head(ks)}
       IN (IF here = {} THEN <<>>
           ELSE LET i == CHOOSE j \in here : TRUE
                IN <<[kind |-> stats[i].kind, mean |-> stats[i].mean]>>)
          \o Enrich(stats, Tail(ks))

enriched_query(st) ==
  [q |-> Strip(GetOrStr(st, "question")),
   enrich |-> Enrich(GetOrList(st, "stats"), <<"hr", "hrv", "sleep", "steps">>)]

node_retrieve(st, results) ==
  IF RetrieveShortCircuit(st) THEN [relevant_chunks |-> <<>>, citations |-> <<>>]
  ELSE [relevant_chunks |-> MapChunks(results), citations |-> MapCites(results)]

(* ---------------------------------------------------------------------- *)
(* Stage 5: node_safety                                                    *)
(* ---------------------------------------------------------------------- *)
EMERGENCY_SIGNS ==
  { <<"c","r","u","s","h","i","n","g"," ","c","h","e","s","t"," ","p","a","i","n">>,
    <<"s","h","o","r","t","n","e","s","s"," ","o","f"," ","b","r","e","a","t","h">>,
    <<"f","a","i","n","t","i","n","g">>,
    <<"s","t","r","o","k","e">>,
    <<"s","e","v","e","r","e"," ","b","l","e","e","d","i","n","g">>,
    <<"u","n","c","o","n","s","c","i","o","u","s">> }

UpperToLower == [c \in {"S", "H", "I"} |-> CASE c = "S" -> "s" [] c = "H" -> "h" [] c = "I" -> "i"]

\* str.lower()
Lower(s) == [i \in 1..Len(s) |-> IF s[i] \in DOMAIN UpperToLower THEN UpperToLower[s[i]] ELSE s[i]]

\* k in q, on character sequences
Contains(q, k) ==
  \E i \in 0..(Len(q) - Len(k)) : SubSeq(q, i + 1, i + Len(k)) = k

URGENT_WARNING == "Possible emergency symptoms mentioned - advise urgent in-person care."
HR_WARNING == "Unusual heart rate pattern detected; seek medical review if persistent."

\* the characters of the kinds of the model
KindText(k) ==
  CASE k = "" -> <<>>
    [] k = "hr" -> <<"h", "r">>
    [] k = "hrv" -> <<"h", "r", "v">>
    [] k = "steps" -> <<"s", "t", "e", "p", "s">>
    [] k = "sleep" -> <<"s", "l", "e", "e", "p">>

\* the first characters of "<kind>: <count> outlier(s) ..."
FlagText(a) == KindText(a.kind) \o <<":", " ">>

\* a.startswith("hr:")
StartsWithHr(a) == Len(FlagText(a)) >= 3 /\ SubSeq(FlagText(a), 1, 3) = <<"h", "r", ":">>

\* the question is matched as typed, without lower-casing
node_safetyAsTyped(st) ==
  LET q == GetOrStr(st, "question")
      anomalies == GetOrList(st, "anomalies")
  IN [safety_warnings |->
        (IF \E k \in EMERGENCY_SIGNS : Contains(q, k) THEN <<URGENT_WARNING>> ELSE <<>>)
        \o (IF \E i \in 1..Len(anomalies) : StartsWithHr(anomalies[i])
            THEN <<HR_WARNING>> ELSE <<>>)]

node_safety(st) ==
  LET q == Lower(GetOrStr(st, "question"))
      anomalies == GetOrList(st, "anomalies")
  IN [safety_warnings |->
        (IF \E k \in EMERGENCY_SIGNS : Contains(q, k) THEN <<URGENT_WARNING>> ELSE <<>>)
        \o (IF \E i \in 1..Len(anomalies) : StartsWithHr(anomalies[i])
            THEN <<HR_WARNING>> ELSE <<>>)]

(* ---------------------------------------------------------------------- *)
(* Stage 6: node_answer                                                    *)
(* ---------------------------------------------------------------------- *)
\* len() of the document texts and source names of the model
StrLen(x) ==
  CASE x = "" -> 0
    [] x = "unknown" -> 7
    [] x = "a.md" -> 4
    [] x = "http://x" -> 8
    [] x = "d1" -> 2
    [] x = "d2" -> 2
    [] x = "T10" -> 10
    [] x = "T1981" -> 1981
    [] x = "T4000" -> 4000

\* the block "[SOURCE: <src>]\n<text>\n" of one chunk
PartOf(r) ==
  LET text == r.text
      meta == r.metadata
      src == OrStr(meta.source, OrStr(PGet(meta, "url"), OrStr(meta.id, "unknown")))
  IN [src |-> src, text |-> text]

\* len(part): "[SOURCE: " is 9 characters, "]\n" 2, the final "\n" 1
PartLen(part) == 9 + StrLen(part.src) + 2 + StrLen(part.text) + 1

RECURSIVE FormatLoopSkip(_, _, _)
\* a block that does not fit is skipped and the loop goes on with the next
FormatLoopSkip(chunks, used, max) ==
  IF chunks = <<>> THEN <<>>
  ELSE LET part == PartOf(Head(chunks))
       IN IF used + PartLen(part) > max THEN FormatLoopSkip(Tail(chunks), used, max)
          ELSE <<part>> \o FormatLoopSkip(Tail(chunks), used + PartLen(part), max)

RECURSIVE FormatLoop(_, _, _)
\* the for loop of _format_context: pieces, given the chunks still to visit
FormatLoop(chunks, used, max) ==
  IF chunks = <<>> THEN <<>>
  ELSE LET part == PartOf(Head(chunks))
       IN IF used + PartLen(part) > max THEN <<>>
          ELSE <<part>> \o FormatLoop(Tail(chunks), used + PartLen(part), max)

RECURSIVE SumPartLen(_)
SumPartLen(pieces) ==
  IF pieces = <<>> THEN 0 ELSE PartLen(Head(pieces)) + SumPartLen(Tail(pieces))

\* len("\n".join(pieces)): the parts and one separator between neighbours
JoinLen(pieces) ==
  IF pieces = <<>> THEN 0 ELSE SumPartLen(pieces) + (Len(pieces) - 1)

\* the context string: its blocks in order, and its length
_format_context(chunks, max) ==
  LET pieces == FormatLoop(chunks, 0, max)
  IN [pieces |-> pieces, len |-> JoinLen(pieces)]

\* the numbered source list: "[i] <source> (sim <score>)"
_citation_block(citations) ==
  [i \in 1..Len(citations) |->
     [number |-> i, src |-> OrStr(citations[i].source, "unknown"),
      score |-> citations[i].score]]

NO_METRICS == "No recent metrics available for the requested window."

\* the "- KIND: mean m, sigma s over n pts" lines; the fixed sentence if none
metrics_summary(stats) ==
  LET parts == [i \in 1..Len(stats) |-> [kind |-> stats[i].kind, mean |-> stats[i].mean,
                                         stdev2 |-> stats[i].stdev2, n |-> stats[i].n]]
  IN [lines |-> parts, sentence |-> IF parts = <<>> THEN NO_METRICS ELSE ""]

\* the user prompt of node_answer, by its sections
user_prompt(st) ==
  [sent |-> TRUE,
   question |-> GetOrStr(st, "question"),
   metrics_summary |-> metrics_summary(GetOrList(st, "stats")),
   anomalies |-> GetOrList(st, "anomalies"),
   context |-> _format_context(GetOrList(st, "relevant_chunks"), max_chars),
   safety |-> GetOrList(st, "safety_warnings"),
   sources |-> _citation_block(GetOrList(st, "citations"))]

\* the fixed disclaimer paragraph, one block that is not whitespace
DISCLAIMER == <<"Note: This is general information ... or seek in-person care.">>

\* what the language model can answer
Completions == { <<" ", "o", "k", "\n">>, <<>> }

node_answer(st, resp) ==
  LET content == Strip(resp) \o <<"\n", "\n">> \o DISCLAIMER
  IN [answer |-> content, messages |-> <<AIMessage(content)>>]

(* ---------------------------------------------------------------------- *)
(* The graph (build_graph)                                                 *)
(* ---------------------------------------------------------------------- *)
START_NODE == "parse_user"

\* the graph with the edge parse_user -> analyze_metrics: the fetch is skipped
EdgesSkipFetch ==
  [n \in {"parse_user", "pull_metrics", "analyze_metrics",
          "retrieve_guidance", "safety", "answer"} |->
     CASE n = "parse_user" -> "analyze_metrics"
       [] n = "pull_metrics" -> "analyze_metrics"
       [] n = "analyze_metrics" -> "retrieve_guidance"
       [] n = "retrieve_guidance" -> "safety"
       [] n = "safety" -> "answer"
       [] n = "answer" -> "END"]

\* add_edge(a, b), for every node a
Edges == [n \in {"parse_user", "pull_metrics", "analyze_metrics",
                 "retrieve_guidance", "safety", "answer"} |->
            CASE n = "parse_user" -> "pull_metrics"
              [] n = "pull_metrics" -> "analyze_metrics"
              [] n = "analyze_metrics" -> "retrieve_guidance"
              [] n = "retrieve_guidance" -> "safety"
              [] n = "safety" -> "answer"
              [] n = "answer" -> "END"]

(* ---------------------------------------------------------------------- *)
(* Initial state                                                           *)
(* ---------------------------------------------------------------------- *)
DefaultSettings ==
  [default_metric_kinds |-> <<"hr", "hrv", "steps", "sleep">>,
   available_metric_kinds |-> <<"hr", "hrv", "steps", "sleep", "weight", "blood_pressure",
                                "temperature", "glucose", "oxygen_saturation">>]

\* what the conversation store may hold when a request arrives
StoredConversations ==
  { <<>>,
    <<[user_id |-> "u1", role |-> "user", content |-> MsgHi],
      [user_id |-> "u1", role |-> "assistant", content |-> <<"o", "k">>]>> }

IdleRun ==
  /\ pc = [r \in Runs |-> "idle"]
  /\ mode = [r \in Runs |-> "none"]
  /\ body = [r \in Runs |-> [user_id |-> "", message |-> <<>>,
                             timeframe |-> NoTimeframe, metric_kinds |-> <<>>]]
  /\ state = [r \in Runs |-> EmptyDict]
  /\ executed = [r \in Runs |-> <<>>]
  /\ events = [r \in Runs |-> <<>>]
  /\ final_answer = [r \in Runs |-> <<>>]
  /\ response = [r \in Runs |-> NoResponse]
  /\ failure = [r \in Runs |-> NoFailure]
  /\ calls = [r \in Runs |-> <<>>]
  /\ hits = [r \in Runs |-> <<>>]
  /\ prompt = [r \in Runs |-> NoPrompt]

Init ==
  /\ settings = DefaultSettings
  /\ collection = NoCollection
  /\ convStore \in StoredConversations
  /\ IdleRun

(* ---------------------------------------------------------------------- *)
(* Handlers: chat and chat_stream up to the start of the graph run         *)
(* ---------------------------------------------------------------------- *)
Begin(r, m, b) ==
  /\ pc[r] = "idle"
  /\ mode' = [mode EXCEPT ![r] = m]
  /\ body' = [body EXCEPT ![r] = b]
  /\ state' = [state EXCEPT ![r] = Merge(EmptyDict, initial_state(convStore, settings, b))]
  /\ calls' = [calls EXCEPT ![r] = Append(@, "fetch_context")]
  /\ pc' = [pc EXCEPT ![r] = START_NODE]
  /\ response' = [response EXCEPT ![r] =
                    IF m = "stream" THEN [status |-> "stream"] ELSE NoResponse]
  /\ UNCHANGED <<hits, settings, collection, convStore, executed, events, final_answer, failure, prompt>>

chat(r) == \E b \in Bodies : Begin(r, "sync", b)

chat_stream(r) == \E b \in Bodies : Begin(r, "stream", b)

(* ---------------------------------------------------------------------- *)
(* One step of the graph run: a node runs and its update is merged; in a   *)
(* stream the update is handed to sse_gen, which yields a node event       *)
(* ---------------------------------------------------------------------- *)
NodeEvent(name, upd) == [type |-> "node", node |-> name, keys |-> DOMAIN upd]

\* the answer of the last update is never picked up
CaptureAnswerNever(old, upd) == old

\* ans = maybe_state.get("answer"); if isinstance(ans, str) and ans: ...
CaptureAnswer(old, upd) ==
  IF "answer" \in DOMAIN upd /\ upd.answer # NoneV /\ upd.answer # <<>>
  THEN upd.answer ELSE old

\* the update is merged into one state record that all runs share
CommitShared(r, name, upd) ==
  /\ state' = [q \in Runs |-> Merge(state[q], upd)]
  /\ executed' = [executed EXCEPT ![r] = Append(@, name)]
  /\ pc' = [pc EXCEPT ![r] = Edges[name]]
  /\ IF mode[r] = "stream"
     THEN /\ events' = [events EXCEPT ![r] = Append(@, NodeEvent(name, upd))]
          /\ final_answer' = [final_answer EXCEPT ![r] = CaptureAnswer(@, upd)]
     ELSE UNCHANGED <<events, final_answer>>

Commit(r, name, upd) ==
  /\ state' = [state EXCEPT ![r] = Merge(@, upd)]
  /\ executed' = [executed EXCEPT ![r] = Append(@, name)]
  /\ pc' = [pc EXCEPT ![r] = Edges[name]]
  /\ IF mode[r] = "stream"
     THEN /\ events' = [events EXCEPT ![r] = Append(@, NodeEvent(name, upd))]
          /\ final_answer' = [final_answer EXCEPT ![r] = CaptureAnswer(@, upd)]
     ELSE UNCHANGED <<events, final_answer>>

\* the error is recorded and the run goes on with the next stage
RaiseAndContinue(r, name, msg) ==
  /\ failure' = [failure EXCEPT ![r] = [stage |-> name, message |-> msg]]
  /\ pc' = [pc EXCEPT ![r] = IF name \in DOMAIN Edges THEN Edges[name] ELSE "done"]
  /\ UNCHANGED response

\* an exception leaves the graph: sse_gen catches it, chat lets it propagate
Raise(r, name, msg) ==
  /\ failure' = [failure EXCEPT ![r] = [stage |-> name, message |-> msg]]
  /\ IF mode[r] = "stream"
     THEN /\ pc' = [pc EXCEPT ![r] = "except"]
          /\ UNCHANGED response
     ELSE /\ pc' = [pc EXCEPT ![r] = "done"]
          /\ response' = [response EXCEPT ![r] = [status |-> "error", message |-> msg]]

ParseUser(r) ==
  /\ pc[r] = "parse_user"
  /\ Commit(r, "parse_user", node_parse_user(state[r]))
  /\ UNCHANGED <<hits, settings, collection, convStore, mode, body, response, failure, calls, prompt>>

PullMetrics(r) ==
  /\ pc[r] = "pull_metrics"
  /\ IF PullShortCircuit(state[r])
     THEN /\ Commit(r, "pull_metrics", node_pull_metrics(state[r], <<>>))
          /\ UNCHANGED calls
     ELSE /\ IsIso(state[r].timeframe.start) /\ IsIso(state[r].timeframe.end)
          /\ \E docs \in MetricDocs :
               Commit(r, "pull_metrics", node_pull_metrics(state[r], docs))
          /\ calls' = [calls EXCEPT ![r] = Append(@, "get_user_metrics")]
  /\ UNCHANGED <<hits, settings, collection, convStore, mode, body, response, failure, prompt>>

PullMetricsFail(r) ==
  /\ pc[r] = "pull_metrics"
  /\ ~PullShortCircuit(state[r])
  /\ calls' = [calls EXCEPT ![r] = Append(@, "get_user_metrics")]
  /\ IF IsIso(state[r].timeframe.start) /\ IsIso(state[r].timeframe.end)
     THEN Raise(r, "pull_metrics", "metrics store error")
     ELSE Raise(r, "pull_metrics", "Invalid isoformat string")
  /\ UNCHANGED <<hits, settings, collection, convStore, mode, body, state, executed, events,
                 final_answer, prompt>>

AnalyzeMetrics(r) ==
  /\ pc[r] = "analyze_metrics"
  /\ Commit(r, "analyze_metrics", node_analyze(state[r]))
  /\ UNCHANGED <<hits, settings, collection, convStore, mode, body, response, failure, calls, prompt>>

\* pstdev raises on a group that holds a NaN or an infinity
AnalyzeMetricsFail(r) ==
  /\ pc[r] = "analyze_metrics"
  /\ LET points == GetOrList(state[r], "metrics")
         ks == KindOrder(points)
     IN \E i \in 1..Len(ks) : PstdevRaises(ValuesOf(points, ks[i]))
  /\ Raise(r, "analyze_metrics", "'float' object has no attribute 'numerator'")
  /\ UNCHANGED <<hits, settings, collection, convStore, mode, body, state, executed, events,
                 final_answer, calls, prompt>>

RetrieveGuidance(r) ==
  /\ pc[r] = "retrieve_guidance"
  /\ IF RetrieveShortCircuit(state[r])
     THEN /\ Commit(r, "retrieve_guidance", node_retrieve(state[r], <<>>))
          /\ UNCHANGED <<calls, hits>>
     ELSE /\ \E found \in SearchResults :
               /\ Commit(r, "retrieve_guidance", node_retrieve(state[r], found))
               /\ hits' = [hits EXCEPT ![r] = found]
          /\ calls' = [calls EXCEPT ![r] = @ \o <<"embed_query", "search">>]
  /\ UNCHANGED <<settings, collection, convStore, mode, body, response, failure, prompt>>

RetrieveGuidanceFail(r) ==
  /\ pc[r] = "retrieve_guidance"
  /\ ~RetrieveShortCircuit(state[r])
  /\ \/ /\ calls' = [calls EXCEPT ![r] = Append(@, "embed_query")]
        /\ Raise(r, "retrieve_guidance", "embedding error")
     \/ /\ calls' = [calls EXCEPT ![r] = @ \o <<"embed_query", "search">>]
        /\ Raise(r, "retrieve_guidance", "vector index error")
  /\ UNCHANGED <<hits, settings, collection, convStore, mode, body, state, executed, events,
                 final_answer, prompt>>

Safety(r) ==
  /\ pc[r] = "safety"
  /\ Commit(r, "safety", node_safety(state[r]))
  /\ UNCHANGED <<hits, settings, collection, convStore, mode, body, response, failure, calls, prompt>>

Answer(r) ==
  /\ pc[r] = "answer"
  /\ \E resp \in Completions : Commit(r, "answer", node_answer(state[r], resp))
  /\ prompt' = [prompt EXCEPT ![r] = user_prompt(state[r])]
  /\ calls' = [calls EXCEPT ![r] = Append(@, "llm.invoke")]
  /\ UNCHANGED <<hits, settings, collection, convStore, mode, body, response, failure>>

AnswerFail(r) ==
  /\ pc[r] = "answer"
  /\ prompt' = [prompt EXCEPT ![r] = user_prompt(state[r])]
  /\ calls' = [calls EXCEPT ![r] = Append(@, "llm.invoke")]
  /\ Raise(r, "answer", "language model error")
  /\ UNCHANGED <<hits, settings, collection, convStore, mode, body, state, executed, events, final_answer>>

(* ---------------------------------------------------------------------- *)
(* Handlers: after the graph run                                           *)
(* ---------------------------------------------------------------------- *)
\* chat: reply = (result.get("answer") or "").strip()
Reply(st) == Strip(GetOrStr(st, "answer"))

\* append_turn(body.user_id, "user", body.message)
AppendUserTurn(r) ==
  /\ pc[r] = "END"
  /\ convStore' = append_turn(convStore, body[r].user_id, "user", body[r].message)
  /\ final_answer' = [final_answer EXCEPT ![r] =
                        IF mode[r] = "sync" THEN Reply(state[r]) ELSE @]
  /\ calls' = [calls EXCEPT ![r] = Append(@, "append_turn")]
  /\ pc' = [pc EXCEPT ![r] = "append_assistant"]
  /\ UNCHANGED <<hits, settings, collection, mode, body, state, executed, events, response, failure, prompt>>

\* append_turn(body.user_id, "assistant", reply / final_answer)
AppendAssistantTurn(r) ==
  /\ pc[r] = "append_assistant"
  /\ convStore' = append_turn(convStore, body[r].user_id, "assistant", final_answer[r])
  /\ calls' = [calls EXCEPT ![r] = Append(@, "append_turn")]
  /\ pc' = [pc EXCEPT ![r] = "respond"]
  /\ UNCHANGED <<hits, settings, collection, mode, body, state, executed, events, final_answer,
                 response, failure, prompt>>

\* the conversation store rejects an append
AppendTurnFail(r) ==
  /\ pc[r] \in {"END", "append_assistant"}
  /\ calls' = [calls EXCEPT ![r] = Append(@, "append_turn")]
  /\ Raise(r, "append_turn", "conversation store error")
  /\ UNCHANGED <<hits, settings, collection, convStore, mode, body, state, executed, events,
                 final_answer, prompt>>

\* chat returns ChatResponse(reply, used_docs); sse_gen yields the final event
Respond(r) ==
  /\ pc[r] = "respond"
  /\ IF mode[r] = "stream"
     THEN /\ events' = [events EXCEPT ![r] =
                          Append(@, [type |-> "final", answer |-> final_answer[r]])]
          /\ pc' = [pc EXCEPT ![r] = "finally"]
          /\ UNCHANGED response
     ELSE /\ response' = [response EXCEPT ![r] =
                            [status |-> "ok", reply |-> final_answer[r],
                             used_docs |-> GetOrList(state[r], "citations")]]
          /\ pc' = [pc EXCEPT ![r] = "done"]
          /\ UNCHANGED events
  /\ UNCHANGED <<hits, settings, collection, convStore, mode, body, state, executed, final_answer,
                 failure, calls, prompt>>

\* the error event carries a fixed text instead of the exception's message
ExceptGeneric(r) ==
  /\ pc[r] = "except"
  /\ events' = [events EXCEPT ![r] = Append(@, [type |-> "error", message |-> ""])]
  /\ pc' = [pc EXCEPT ![r] = "finally"]
  /\ UNCHANGED <<hits, settings, collection, convStore, mode, body, state, executed, final_answer,
                 response, failure, calls, prompt>>

\* the marker is yielded at the end of the try block only: not after an error
ExceptNoMarker(r) ==
  /\ pc[r] = "except"
  /\ events' = [events EXCEPT ![r] =
                  Append(@, [type |-> "error", message |-> failure[r].message])]
  /\ pc' = [pc EXCEPT ![r] = "done"]
  /\ UNCHANGED <<hits, settings, collection, convStore, mode, body, state, executed, final_answer,
                 response, failure, calls, prompt>>

\* except Exception as exc: yield the error event
Except(r) ==
  /\ pc[r] = "except"
  /\ events' = [events EXCEPT ![r] =
                  Append(@, [type |-> "error", message |-> failure[r].message])]
  /\ pc' = [pc EXCEPT ![r] = "finally"]
  /\ UNCHANGED <<hits, settings, collection, convStore, mode, body, state, executed, final_answer,
                 response, failure, calls, prompt>>

\* finally: yield b"data: [DONE]\n\n"
Finally(r) ==
  /\ pc[r] = "finally"
  /\ events' = [events EXCEPT ![r] = Append(@, [type |-> "DONE"])]
  /\ pc' = [pc EXCEPT ![r] = "done"]
  /\ UNCHANGED <<hits, settings, collection, convStore, mode, body, state, executed, final_answer,
                 response, failure, calls, prompt>>

(* ---------------------------------------------------------------------- *)
(* Specification: one request served at a time                             *)
(* ---------------------------------------------------------------------- *)
Served == {1}

\* the steps of GRAPH.invoke / GRAPH.astream
GraphStep(r) ==
  \/ ParseUser(r)
  \/ PullMetrics(r)
  \/ PullMetricsFail(r)
  \/ AnalyzeMetrics(r)
  \/ AnalyzeMetricsFail(r)
  \/ RetrieveGuidance(r)
  \/ RetrieveGuidanceFail(r)
  \/ Safety(r)
  \/ Answer(r)
  \/ AnswerFail(r)

\* the steps of the handler once the graph has returned or raised
HandlerStep(r) ==
  \/ AppendUserTurn(r)
  \/ AppendAssistantTurn(r)
  \/ AppendTurnFail(r)
  \/ Respond(r)
  \/ Except(r)
  \/ Finally(r)

Next ==
  \E r \in Served :
    \/ chat(r)
    \/ chat_stream(r)
    \/ GraphStep(r)
    \/ HandlerStep(r)

Spec == Init /\ [][Next]_vars

(* ---------------------------------------------------------------------- *)
(* Specification: the graph started on the state object of an earlier run  *)
(* ---------------------------------------------------------------------- *)
PriorBody == [user_id |-> "u1", message |-> MsgStroke,
              timeframe |-> [start |-> IsoStart, end |-> IsoEnd],
              metric_kinds |-> <<"sleep">>]

\* the metrics the earlier run fetched: seven nights of 6 hours and one of 10
PriorDocs ==
  [i \in 1..8 |-> RawDoc("sleep", 12 + i, IF i = 8 THEN Num(10) ELSE Num(6))]

\* the final state of a completed run: every accumulator holds something
PriorResult ==
  LET s0 == Merge(EmptyDict, initial_state(<<>>, DefaultSettings, PriorBody))
      s1 == Merge(s0, node_parse_user(s0))
      s2 == Merge(s1, node_pull_metrics(s1, PriorDocs))
      s3 == Merge(s2, node_analyze(s2))
      s4 == Merge(s3, node_retrieve(s3, <<CHOOSE h \in HitPool : h.score = 5>>))
      s5 == Merge(s4, node_safety(s4))
  IN Merge(s5, node_answer(s5, <<"o", "k">>))

\* the earlier state reused as the input of the next request's run
Reused(prior, st) ==
  [k \in (DOMAIN prior) \cup (DOMAIN st) |->
     IF k \in {"messages", "user_id", "timeframe", "metric_kinds"} THEN st[k]
     ELSE prior[k]]

InitReuse ==
  /\ settings = DefaultSettings
  /\ collection = NoCollection
  /\ convStore = <<>>
  /\ \E b \in Bodies, m \in {"sync", "stream"} :
       /\ pc = [r \in Runs |-> IF r = 1 THEN START_NODE ELSE "idle"]
       /\ mode = [r \in Runs |-> IF r = 1 THEN m ELSE "none"]
       /\ body = [r \in Runs |-> IF r = 1 THEN b ELSE [user_id |-> "", message |-> <<>>,
                                   timeframe |-> NoTimeframe, metric_kinds |-> <<>>]]
       /\ state = [r \in Runs |->
                     IF r = 1
                     THEN Merge(EmptyDict,
                                Reused(PriorResult, initial_state(convStore, settings, b)))
                     ELSE EmptyDict]
       /\ response = [r \in Runs |-> IF r = 1 /\ m = "stream"
                                     THEN [status |-> "stream"] ELSE NoResponse]
  /\ executed = [r \in Runs |-> <<>>]
  /\ events = [r \in Runs |-> <<>>]
  /\ final_answer = [r \in Runs |-> <<>>]
  /\ failure = [r \in Runs |-> NoFailure]
  /\ calls = [r \in Runs |-> <<>>]
  /\ hits = [r \in Runs |-> <<>>]
  /\ prompt = [r \in Runs |-> NoPrompt]

NextReuse ==
  \E r \in Served :
    \/ GraphStep(r)
    \/ HandlerStep(r)

SpecReuse == InitReuse /\ [][NextReuse]_vars

(* ---------------------------------------------------------------------- *)
(* Specification: the Metrics Analyzer on groups of up to MaxPoints points *)
(* ---------------------------------------------------------------------- *)
AnalyzeValues == {0, 1, 3}

\* longer groups: thirteen equal values and two or three values apart from them
LongGroups ==
  { [i \in 1..15 |-> IF i > 13 THEN 1 ELSE 0],
    [i \in 1..16 |-> IF i = 16 THEN 3 ELSE IF i > 13 THEN 0 ELSE 1] }
KindPatterns ==
  {"one kind", "two kinds", "no kind first", "no kind first, steps without value"}

PointKind(pattern, i) ==
  CASE pattern = "one kind" -> "hr"
    [] pattern = "two kinds" -> IF i % 2 = 1 THEN "hr" ELSE "steps"
    [] pattern = "no kind first" -> IF i = 1 THEN "" ELSE "hr"
    [] pattern = "no kind first, steps without value" ->
         IF i = 1 THEN "" ELSE IF i % 2 = 0 THEN "steps" ELSE "hr"

PointValue(pattern, i, v) ==
  IF pattern = "no kind first, steps without value" /\ i % 2 = 0 THEN NoValue ELSE Num(v)

PointsOf(vs, pattern) ==
  [i \in 1..Len(vs) |-> [kind |-> PointKind(pattern, i), ts |-> 13,
                         value |-> PointValue(pattern, i, vs[i]),
                         unit |-> "u"]]

AnalyzeBody == [user_id |-> "u1", message |-> MsgHi,
                timeframe |-> [start |-> IsoStart, end |-> IsoEnd],
                metric_kinds |-> <<"hr", "steps", "">>]

\* the state of a run whose Metrics Fetcher has just delivered `points`
FetchedState(points) ==
  LET s0 == Merge(EmptyDict, initial_state(<<>>, DefaultSettings, AnalyzeBody))
      s1 == Merge(s0, node_parse_user(s0))
  IN Merge(s1, [metrics |-> points])

InitAnalyze ==
  /\ settings = DefaultSettings
  /\ collection = NoCollection
  /\ convStore = <<>>
  /\ pc = [r \in Runs |-> IF r = 1 THEN "analyze_metrics" ELSE "idle"]
  /\ mode = [r \in Runs |-> IF r = 1 THEN "sync" ELSE "none"]
  /\ body = [r \in Runs |-> IF r = 1 THEN AnalyzeBody ELSE [user_id |-> "", message |-> <<>>,
                              timeframe |-> NoTimeframe, metric_kinds |-> <<>>]]
  /\ \E vs \in SeqsUpTo(AnalyzeValues, MaxPoints) \cup LongGroups, pattern \in KindPatterns :
       state = [r \in Runs |-> IF r = 1 THEN FetchedState(PointsOf(vs, pattern))
                               ELSE EmptyDict]
  /\ executed = [r \in Runs |-> IF r = 1 THEN <<"parse_user", "pull_metrics">> ELSE <<>>]
  /\ events = [r \in Runs |-> <<>>]
  /\ final_answer = [r \in Runs |-> <<>>]
  /\ response = [r \in Runs |-> NoResponse]
  /\ failure = [r \in Runs |-> NoFailure]
  /\ calls = [r \in Runs |-> IF r = 1 THEN <<"fetch_context", "get_user_metrics">> ELSE <<>>]
  /\ hits = [r \in Runs |-> <<>>]
  /\ prompt = [r \in Runs |-> NoPrompt]

NextAnalyze == \E r \in Served : AnalyzeMetrics(r)

SpecAnalyze == InitAnalyze /\ [][NextAnalyze]_vars

(* ---------------------------------------------------------------------- *)
(* Specification: the Metrics Analyzer on one group of floats, of ordinary *)
(* magnitude or at the bottom of the double range                          *)
(* ---------------------------------------------------------------------- *)
\* the three heart-rate values of the worked example
ExampleGroup == <<60, 62, 200>>

\* multiples of 2^-1074: 0.0 and 1.5e-323
TinyValues == {0, 3}

OneKind(vals) == [i \in 1..Len(vals) |-> [kind |-> "hr", ts |-> 13, value |-> vals[i],
                                          unit |-> "u"]]

FloatGroups ==
  {[i \in 1..Len(vs) |-> Num(vs[i])] : vs \in SeqsUpTo(AnalyzeValues, MaxPoints) \cup {ExampleGroup}}
    \cup {[i \in 1..Len(ks) |-> Tiny(ks[i])] : ks \in SeqsUpTo(TinyValues, MaxPoints)}

InitFloats ==
  /\ settings = DefaultSettings
  /\ collection = NoCollection
  /\ convStore = <<>>
  /\ pc = [r \in Runs |-> IF r = 1 THEN "analyze_metrics" ELSE "idle"]
  /\ mode = [r \in Runs |-> IF r = 1 THEN "sync" ELSE "none"]
  /\ body = [r \in Runs |-> IF r = 1 THEN AnalyzeBody ELSE [user_id |-> "", message |-> <<>>,
                              timeframe |-> NoTimeframe, metric_kinds |-> <<>>]]
  /\ \E vals \in FloatGroups :
       state = [r \in Runs |-> IF r = 1 THEN FetchedState(OneKind(vals)) ELSE EmptyDict]
  /\ executed = [r \in Runs |-> IF r = 1 THEN <<"parse_user", "pull_metrics">> ELSE <<>>]
  /\ events = [r \in Runs |-> <<>>]
  /\ final_answer = [r \in Runs |-> <<>>]
  /\ response = [r \in Runs |-> NoResponse]
  /\ failure = [r \in Runs |-> NoFailure]
  /\ calls = [r \in Runs |-> IF r = 1 THEN <<"fetch_context", "get_user_metrics">> ELSE <<>>]
  /\ hits = [r \in Runs |-> <<>>]
  /\ prompt = [r \in Runs |-> NoPrompt]

SpecFloats == InitFloats /\ [][NextAnalyze]_vars

(* ---------------------------------------------------------------------- *)
(* Specification: two requests served concurrently                         *)
(* ---------------------------------------------------------------------- *)
\* the two requests: a blank message of user u1 with a week of heart rate
\* (metrics, no retrieval), sent to /chat, and a question without user_id
\* (retrieval, no metrics), sent to /chat/stream
ConcBody ==
  [r \in Runs |->
     IF r = 1 THEN [user_id |-> "u1", message |-> MsgBlank,
                    timeframe |-> [start |-> IsoStart, end |-> IsoEnd],
                    metric_kinds |-> <<"hr">>]
     ELSE [user_id |-> "", message |-> MsgStroke,
           timeframe |-> NoTimeframe, metric_kinds |-> <<>>]]

ConcMode == [r \in Runs |-> IF r = 1 THEN "sync" ELSE "stream"]

NextConc ==
  \E r \in Runs :
    \/ Begin(r, ConcMode[r], ConcBody[r])
    \/ GraphStep(r)
    \/ HandlerStep(r)

SpecConc == Init /\ [][NextConc]_vars

(* ---------------------------------------------------------------------- *)
(* Specification: two requests of the same user in flight together         *)
(* ---------------------------------------------------------------------- *)
\* both requests are of user u1: the first as in ConcBody, the second a
\* question with a timeframe that has no end (retrieval, no metrics)
SameUserBody ==
  [r \in Runs |->
     IF r = 1 THEN ConcBody[r]
     ELSE [user_id |-> "u1", message |-> MsgStroke,
           timeframe |-> [start |-> IsoStart, end |-> ""], metric_kinds |-> <<>>]]

NextSameUser ==
  \E r \in Runs :
    \/ Begin(r, ConcMode[r], SameUserBody[r])
    \/ GraphStep(r)
    \/ HandlerStep(r)

SpecSameUser == Init /\ [][NextSameUser]_vars

(* ---------------------------------------------------------------------- *)
(* The vector index (retriever.py) and its endpoints                       *)
(* ---------------------------------------------------------------------- *)
\* None where a dict is expected
NoDict == [k \in {"<None>"} |-> ""]

\* d or {}
OrDict(d) == IF d = NoDict THEN EmptyDict ELSE d

IndexTexts == {"a", ""}
IndexMetas == {NoDict, [category |-> "x"], [category |-> "x", text |-> "b"],
               [category |-> "x", page_content |-> "c"]}
\* "" is an item without id
IndexIds == {"", "p1"}

UpsertItems == [text : IndexTexts, metadata : IndexMetas, id : IndexIds]

\* the bodies of POST /index/upsert: one item, or two items in one request
UpsertBodies ==
  {<<i>> : i \in UpsertItems}
    \cup {<<[text |-> "a", metadata |-> [category |-> "x"], id |-> "p1"],
            [text |-> "a", metadata |-> [category |-> "x", text |-> "b"], id |-> ""]>>}

\* the bodies of POST /index/search; k is 5 when omitted
SearchBodies ==
  [k : {1, 5},
   where : {NoDict, [key |-> "category", value |-> "x"], [key |-> "text", value |-> "b"],
            [key |-> "category"]}]

\* the ids the server gives to points sent without one
AssignedIds == {"auto1"}

\* payload = {"text": item["text"], **meta}: a metadata key "text" wins
payload(item) ==
  LET meta == OrDict(item.metadata)
  IN [k \in {"text"} \cup DOMAIN meta |-> IF k \in DOMAIN meta THEN meta[k] ELSE item.text]

\* client.upsert of one point: a point with the same id is replaced
PutPoint(points, id, p) ==
  [i \in DOMAIN points \cup {id} |-> IF i = id THEN p ELSE points[i]]

RECURSIVE StorePoints(_, _)
\* client.upsert of the points of a request, in order
StorePoints(points, items) ==
  IF items = <<>> THEN points
  ELSE LET item == Head(items)
           id == IF item.id # "" THEN item.id
                 ELSE CHOOSE a \in AssignedIds : a \notin DOMAIN points
       IN StorePoints(PutPoint(points, id, payload(item)), Tail(items))

\* the number of items sent without id
Unidentified(items) == Cardinality({i \in 1..Len(items) : items[i].id = ""})

\* the filter of search: only a where with both "key" and "value" filters
UsesFilter(where) ==
  where # NoDict /\ where # EmptyDict /\ "key" \in DOMAIN where /\ "value" \in DOMAIN where

\* MatchValue on one payload key
Matches(p, where) ==
  UsesFilter(where) => (where.key \in DOMAIN p /\ p[where.key] = where.value)

\* _Doc and the result item index_search builds from it
_Doc(p) ==
  [text |-> OrStr(PGet(p, "text"), OrStr(PGet(p, "page_content"), "")),
   metadata |-> [k \in DOMAIN p \ {"text"} |-> p[k]]]

\* the rankings client.search can answer: the k nearest matching points, in
\* the order of a similarity the model leaves open
Rankings(points, where, k) ==
  LET matching == {id \in DOMAIN points : Matches(points[id], where)}
      n == Min(k, Cardinality(matching))
  IN {q \in SeqsUpTo(matching, n) :
        Len(q) = n /\ \A i, j \in 1..n : q[i] = q[j] => i = j}

\* POST /index/upsert arrives as request r
index_upsert(r, items) ==
  /\ pc[r] \in {"idle", "done"}
  /\ mode[r] \in {"none", "upsert"}
  /\ mode' = [mode EXCEPT ![r] = "upsert"]
  /\ body' = [body EXCEPT ![r] = [items |-> items]]
  /\ response' = [response EXCEPT ![r] = NoResponse]
  /\ failure' = [failure EXCEPT ![r] = NoFailure]
  /\ pc' = [pc EXCEPT ![r] = "get_collections"]
  /\ calls' = [calls EXCEPT ![r] = <<>>]
  /\ UNCHANGED <<settings, collection, convStore, state, executed, events, final_answer,
                 hits, prompt>>

\* _ensure_collection reads the list of collections
get_collections(r) ==
  /\ pc[r] = "get_collections"
  /\ pc' = [pc EXCEPT ![r] = IF collection.exists THEN "upsert" ELSE "recreate_collection"]
  /\ calls' = [calls EXCEPT ![r] = Append(@, "get_collections")]
  /\ UNCHANGED <<settings, collection, convStore, mode, body, state, executed, events,
                 final_answer, response, failure, hits, prompt>>

\* _ensure_collection found none: the collection is created anew, empty
recreate_collection(r) ==
  /\ pc[r] = "recreate_collection"
  /\ collection' = [exists |-> TRUE, points |-> EmptyDict]
  /\ pc' = [pc EXCEPT ![r] = "upsert"]
  /\ calls' = [calls EXCEPT ![r] = Append(@, "recreate_collection")]
  /\ UNCHANGED <<settings, convStore, mode, body, state, executed, events,
                 final_answer, response, failure, hits, prompt>>

\* the rest of upsert_texts: embed, build the points, client.upsert, the ids
upsert_points(r) ==
  /\ pc[r] = "upsert"
  /\ collection.exists
  /\ Unidentified(body[r].items)
       <= Cardinality(AssignedIds \ DOMAIN collection.points)
  /\ collection' = [collection EXCEPT !.points = StorePoints(@, body[r].items)]
  /\ response' = [response EXCEPT ![r] =
                    [status |-> "ok",
                     ids |-> [i \in 1..Len(body[r].items) |-> body[r].items[i].id]]]
  /\ calls' = [calls EXCEPT ![r] = @ \o <<"embed_documents", "upsert">>]
  /\ pc' = [pc EXCEPT ![r] = "done"]
  /\ UNCHANGED <<settings, convStore, mode, body, state, executed, events,
                 final_answer, failure, hits, prompt>>

\* upsert_texts fails: the embedding raises, PointStruct rejects an id of
\* None, or the collection is gone; nothing is stored
upsert_fail(r) ==
  /\ pc[r] = "upsert"
  /\ \E msg \in {"embedding error"}
            \cup (IF Unidentified(body[r].items) > 0 THEN {"point id required"} ELSE {})
            \cup (IF collection.exists THEN {} ELSE {"collection not found"}) :
       /\ failure' = [failure EXCEPT ![r] = [stage |-> "upsert_texts", message |-> msg]]
       /\ response' = [response EXCEPT ![r] = [status |-> "error", message |-> msg]]
  /\ calls' = [calls EXCEPT ![r] = Append(@, "embed_documents")]
  /\ pc' = [pc EXCEPT ![r] = "done"]
  /\ UNCHANGED <<settings, collection, convStore, mode, body, state, executed, events,
                 final_answer, hits, prompt>>

\* POST /index/search, served as request r
index_search(r, b) ==
  /\ pc[r] \in {"idle", "done"}
  /\ mode[r] \in {"none", "search"}
  /\ mode' = [mode EXCEPT ![r] = "search"]
  /\ body' = [body EXCEPT ![r] = b]
  /\ pc' = [pc EXCEPT ![r] = "done"]
  /\ calls' = [calls EXCEPT ![r] = <<"embed_query", "search">>]
  /\ IF collection.exists
     THEN /\ \E ranked \in Rankings(collection.points, b.where, b.k) :
               response' = [response EXCEPT ![r] =
                              [status |-> "ok",
                               results |-> [i \in 1..Len(ranked) |->
                                              _Doc(collection.points[ranked[i]])]]]
          /\ failure' = [failure EXCEPT ![r] = NoFailure]
     ELSE /\ response' = [response EXCEPT ![r] =
                            [status |-> "error", message |-> "collection not found"]]
          /\ failure' = [failure EXCEPT ![r] =
                           [stage |-> "search", message |-> "collection not found"]]
  /\ UNCHANGED <<settings, collection, convStore, state, executed, events, final_answer,
                 hits, prompt>>

\* one request stream upserts, the other searches
Indexers == {1}
Searchers == {2}

InitIndex ==
  /\ settings = DefaultSettings
  /\ collection = NoCollection
  /\ convStore = <<>>
  /\ IdleRun

NextIndex ==
  \/ \E r \in Indexers :
       \/ \E items \in UpsertBodies : index_upsert(r, items)
       \/ get_collections(r)
       \/ recreate_collection(r)
       \/ upsert_points(r)
       \/ upsert_fail(r)
  \/ \E r \in Searchers, b \in SearchBodies : index_search(r, b)

SpecIndex == InitIndex /\ [][NextIndex]_vars

(* ---------------------------------------------------------------------- *)
(* Specification: two upsert requests against the same Qdrant server.      *)
(* get_collections, recreate_collection and upsert are separate calls to   *)
(* the server, so the calls of two requests interleave                     *)
(* ---------------------------------------------------------------------- *)
\* the items each request upserts: one point, with its own id
UpsertOf ==
  [r \in Runs |-> <<[text |-> "a", metadata |-> NoDict,
                     id |-> IF r = 1 THEN "p1" ELSE "p2"]>>]

NextUpserts ==
  \E r \in Runs :
    \/ index_upsert(r, UpsertOf[r])
    \/ get_collections(r)
    \/ recreate_collection(r)
    \/ upsert_points(r)
    \/ upsert_fail(r)

SpecUpserts == InitIndex /\ [][NextUpserts]_vars

(* ---------------------------------------------------------------------- *)
(* Specification: the configuration endpoint (main.py update_metric_config) *)
(* ---------------------------------------------------------------------- *)
\* the lists a MetricConfigUpdateRequest can carry; NoneV is an omitted field
ConfigLists == {NoneV, <<>>, <<"hr">>, <<"weight">>, <<"pulse">>, <<"hr", "weight">>,
                <<"hr", "hr">>}

ConfigBodies == [default_metric_kinds : ConfigLists, available_metric_kinds : ConfigLists]

\* bool(l) for an Optional[List[str]]
Truthy(l) == l # NoneV /\ l # <<>>

\* set(l)
ToSet(l) == {l[i] : i \in 1..Len(l)}

\* the defaults the validation finds outside the available kinds
invalid_defaults(cfg, b) ==
  IF Truthy(b.default_metric_kinds)
  THEN ToSet(b.default_metric_kinds)
         \ ToSet(IF Truthy(b.available_metric_kinds) THEN b.available_metric_kinds
                 ELSE cfg.available_metric_kinds)
  ELSE {}

\* the settings after the two assignments
updated_settings(cfg, b) ==
  [default_metric_kinds |-> IF b.default_metric_kinds # NoneV THEN b.default_metric_kinds
                            ELSE cfg.default_metric_kinds,
   available_metric_kinds |-> IF b.available_metric_kinds # NoneV
                              THEN b.available_metric_kinds
                              ELSE cfg.available_metric_kinds]

\* one POST /config/metrics, served as request r
update_metric_config(r, b) ==
  /\ pc[r] \in {"idle", "done"}
  /\ mode[r] \in {"none", "config"}
  /\ mode' = [mode EXCEPT ![r] = "config"]
  /\ body' = [body EXCEPT ![r] = b]
  /\ pc' = [pc EXCEPT ![r] = "done"]
  /\ IF invalid_defaults(settings, b) # {}
     THEN /\ failure' = [failure EXCEPT ![r] =
                           [stage |-> "update_metric_config",
                            message |-> "Default metric kinds are not in available metric kinds"]]
          /\ response' = [response EXCEPT ![r] =
                            [status |-> "error",
                             message |-> "Default metric kinds are not in available metric kinds"]]
          /\ UNCHANGED settings
     ELSE /\ settings' = updated_settings(settings, b)
          /\ failure' = [failure EXCEPT ![r] = NoFailure]
          /\ response' = [response EXCEPT ![r] =
                            [status |-> "ok",
                             default_metric_kinds |-> settings'.default_metric_kinds,
                             available_metric_kinds |-> settings'.available_metric_kinds]]
  /\ UNCHANGED <<convStore, collection, state, executed, events, final_answer, calls, hits, prompt>>

InitConfig ==
  /\ settings = DefaultSettings
  /\ collection = NoCollection
  /\ convStore = <<>>
  /\ IdleRun

NextConfig == \E r \in Served, b \in ConfigBodies : update_metric_config(r, b)

SpecConfig == InitConfig /\ [][NextConfig]_vars

(* ====================================================================== *)
(* Properties                                                              *)
(* ====================================================================== *)
StageNames == {STAGES[i] : i \in 1..Len(STAGES)}

StageIndex(name) == CHOOSE i \in 1..Len(STAGES) : STAGES[i] = name

\* the handler is past the graph run, which returned normally
AfterGraph == {"END", "append_assistant", "respond"}

\* C1: the stages that have run are always the first stages of the fixed
\* order parse_user, pull_metrics, analyze_metrics, retrieve_guidance,
\* safety, answer, each once; the stage about to run is the successor of
\* the last one that ran; a run that returned has run all six.
C1_StageOrder ==
  \A r \in Runs :
    /\ Len(executed[r]) <= Len(STAGES)
    /\ executed[r] = SubSeq(STAGES, 1, Len(executed[r]))
    /\ pc[r] \in StageNames => pc[r] = STAGES[Len(executed[r]) + 1]
    /\ pc[r] \in AfterGraph => executed[r] = STAGES
    /\ (pc[r] \in {"except", "finally", "done"} /\ failure[r] = NoFailure)
         => executed[r] = STAGES

C1_Witness ==
  \E r \in Runs : pc[r] = "done" /\ executed[r] = STAGES /\ failure[r] = NoFailure

Accumulators == {"metrics", "anomalies", "relevant_chunks", "citations", "safety_warnings"}

\* C2: once the Question Extractor has run and its update is merged, the
\* five accumulator fields are empty, whatever the run was started with.
C2_AccumulatorsReset ==
  \A r \in Runs :
    executed[r] = <<"parse_user">> =>
      \A k \in Accumulators : GetOrList(state[r], k) = <<>>

\* the fields each stage returns in its update
StageKeys ==
  [n \in StageNames |->
     CASE n = "parse_user" -> {"question", "metric_kinds"} \cup Accumulators
       [] n = "pull_metrics" -> {"metrics"}
       [] n = "analyze_metrics" -> {"stats", "anomalies"}
       [] n = "retrieve_guidance" -> {"relevant_chunks", "citations"}
       [] n = "safety" -> {"safety_warnings"}
       [] n = "answer" -> {"answer", "messages"}]

\* the progress events of the first k stages
ProgressEvents(k) ==
  [i \in 1..k |-> [type |-> "node", node |-> STAGES[i], keys |-> StageKeys[STAGES[i]]]]

DoneEvent == [type |-> "DONE"]

SuccessStream(r) ==
  ProgressEvents(6) \o <<[type |-> "final", answer |-> state[r].answer]>> \o <<DoneEvent>>

\* C3 as stated: a finished stream whose run completed all six stages is
\* six progress events, the final event with the composed answer, the marker.
C3_CompletedRunStream ==
  \A r \in Runs :
    (mode[r] = "stream" /\ pc[r] = "done" /\ executed[r] = STAGES)
      => events[r] = SuccessStream(r)

\* C3 amended: the same, for a run that completed and whose two
\* conversation-store appends both succeeded.
C3_PersistedRunStream ==
  \A r \in Runs :
    (mode[r] = "stream" /\ pc[r] = "done" /\ executed[r] = STAGES
       /\ failure[r] = NoFailure)
      => events[r] = SuccessStream(r)

C3_Witness ==
  \E r \in Runs :
    /\ mode[r] = "stream" /\ pc[r] = "done" /\ executed[r] = STAGES
    /\ failure[r] = NoFailure
    /\ Len(events[r]) = 8

\* C4: a finished stream whose run failed in stage k is the progress events
\* of stages 1..k-1, one error event with the failure's message, the marker.
C4_FailedRunStream ==
  \A r \in Runs :
    (mode[r] = "stream" /\ pc[r] = "done" /\ failure[r].stage \in StageNames)
      => /\ failure[r].message # ""
         /\ events[r] = ProgressEvents(StageIndex(failure[r].stage) - 1)
                        \o <<[type |-> "error", message |-> failure[r].message]>>
                        \o <<DoneEvent>>

C4_Witness ==
  \E r \in Runs :
    /\ mode[r] = "stream" /\ pc[r] = "done"
    /\ failure[r].stage = "retrieve_guidance"
    /\ Len(events[r]) = 5

TerminalTypes == {"final", "error"}

\* C5: the end-of-stream marker is never followed by an event and there is
\* never more than one terminal event; a finished stream ends with exactly
\* one terminal event (final or error) followed by exactly one marker.
C5_StreamClosedOnce ==
  \A r \in Runs :
    LET ev == events[r]
        n == Len(ev)
    IN /\ \A i \in 1..n : ev[i].type = "DONE" => i = n
       /\ Cardinality({i \in 1..n : ev[i].type \in TerminalTypes}) <= 1
       /\ (response[r].status = "stream" /\ pc[r] = "done")
            => /\ n >= 2
               /\ ev[n].type = "DONE"
               /\ ev[n - 1].type \in TerminalTypes
               /\ Cardinality({i \in 1..n : ev[i].type \in TerminalTypes}) = 1

C5_Witness ==
  \E r \in Runs :
    /\ response[r].status = "stream" /\ pc[r] = "done"
    /\ failure[r].stage = "append_turn"
    /\ executed[r] = STAGES

\* C6: once a stage has failed the run is over: the stages that ran are
\* those before it, the failed call was made once, the answer is not set,
\* and the caller gets neither a reply with citations nor a final event.
C6_FailureEndsRun ==
  \A r \in Runs :
    failure[r].stage \in StageNames =>
      LET k == StageIndex(failure[r].stage)
          n == Len(calls[r])
      IN /\ pc[r] \in {"except", "finally", "done"}
         /\ executed[r] = SubSeq(STAGES, 1, k - 1)
         /\ "answer" \notin DOMAIN state[r]
         /\ n >= 1 /\ Cardinality({i \in 1..n : calls[r][i] = calls[r][n]}) = 1
         /\ response[r].status # "ok"
         /\ (pc[r] = "done" /\ mode[r] = "sync") => response[r].status = "error"
         /\ \A i \in 1..Len(events[r]) : events[r][i].type # "final"

C6_Witness ==
  \E r \in Runs :
    /\ failure[r].stage = "retrieve_guidance" /\ failure[r].message = "vector index error"
    /\ pc[r] = "done" /\ mode[r] = "sync"
    /\ executed[r] = <<"parse_user", "pull_metrics", "analyze_metrics">>

\* the text of a hit: payload text, else its page_content alias, else empty
HitText(h) ==
  IF PGet(h.payload, "text") # "" THEN PGet(h.payload, "text")
  ELSE PGet(h.payload, "page_content")

\* C7: citations and relevant_chunks have the same length and, position by
\* position, describe the same retrieved hit, in the order the index
\* returned the hits: same id, same source, same score.
C7_CitationsMatchChunks ==
  \A r \in Runs :
    LET chunks == GetOrList(state[r], "relevant_chunks")
        cites == GetOrList(state[r], "citations")
    IN /\ Len(cites) = Len(chunks)
       /\ Len(chunks) = Len(hits[r])
       /\ \A i \in 1..Len(chunks) :
            /\ cites[i].id = chunks[i].metadata.id
            /\ cites[i].source = chunks[i].metadata.source
            /\ cites[i].score = chunks[i].score
            /\ chunks[i].score = hits[r][i].score
            /\ chunks[i].text = HitText(hits[r][i])

C7_Witness ==
  \E r \in Runs :
    /\ Len(GetOrList(state[r], "citations")) = 2
    /\ state[r].citations[1].source = "http://x"
    /\ state[r].citations[2].source = "a.md"
    /\ "retrieve_guidance" \in {executed[r][i] : i \in 1..Len(executed[r])}

\* C8: the context placed in the prompt is at most 4000 characters long.
C8_ContextWithinBudget ==
  \A r \in Runs : prompt[r].sent => prompt[r].context.len <= 4000

RECURSIVE SumOver(_, _)
\* the sum of f over the index set I
SumOver(f, I) ==
  IF I = {} THEN 0
  ELSE LET i == CHOOSE x \in I : TRUE IN f[i] + SumOver(f, I \ {i})

JustAnalyzed(r) ==
  executed[r] # <<>> /\ executed[r][Len(executed[r])] = "analyze_metrics"

\* the points of kind k that carry a value
GroupIdx(points, k) ==
  {i \in 1..Len(points) : points[i].kind = k /\ points[i].value # NoValue}

KindsIn(points) ==
  {points[i].kind : i \in {j \in 1..Len(points) : points[j].value # NoValue}} \ {""}

ValueAt(points) == [i \in 1..Len(points) |-> points[i].value[2]]

SquareAt(points) == [i \in 1..Len(points) |-> points[i].value[2] * points[i].value[2]]

\* n*n times the variance of the group: n * (sum of squares) - (sum)^2
ScaledVariance(points, I) ==
  Cardinality(I) * SumOver(SquareAt(points), I)
    - SumOver(ValueAt(points), I) * SumOver(ValueAt(points), I)

\* 4 * n*n * (v - mean)^2  minus  25 * n*n * variance: positive iff the value
\* lies strictly outside [mean - 2.5 stdev, mean + 2.5 stdev], zero on a bound
Excess(points, I, i) ==
  LET d == Cardinality(I) * points[i].value[2] - SumOver(ValueAt(points), I)
  IN 4 * d * d - 25 * ScaledVariance(points, I)

C9_FlagRaised ==
  \E r \in Runs :
    JustAnalyzed(r) /\ \E j \in 1..Len(state[r].anomalies) : state[r].anomalies[j].count = 2

C11_StatsKeys ==
  \A r \in Runs :
    JustAnalyzed(r) =>
      LET points == state[r].metrics
          st == state[r].stats
          numeric == {i \in 1..Len(points) : points[i].value[1] \in {"num", "nan", "inf"}}
          kinds == {points[i].kind : i \in {j \in numeric : points[j].kind # ""}}
      IN /\ {st[e].kind : e \in 1..Len(st)} = kinds
         /\ Len(st) = Cardinality(kinds)
         /\ "" \notin {st[e].kind : e \in 1..Len(st)}

\* a point without a kind, a kind whose points all lack a value, and one key
C11_Witness ==
  \E r \in Runs :
    /\ JustAnalyzed(r)
    /\ Len(state[r].metrics) >= 3
    /\ state[r].metrics[1].kind = ""
    /\ \E i \in 1..Len(state[r].metrics) : state[r].metrics[i].kind = "steps"
    /\ \A i \in 1..Len(state[r].metrics) :
         state[r].metrics[i].kind = "steps" => state[r].metrics[i].value = NoValue
    /\ Len(state[r].stats) = 1
    /\ state[r].stats[1].kind = "hr"

\* a run whose Metrics Fetcher has run and returned
Fetched(r) == Len(executed[r]) >= 2 /\ executed[r][2] = "pull_metrics"

\* C12: once the Metrics Fetcher has run, every point in metrics has a value
\* that is a finite number; a stored value that is not one (non-numeric,
\* missing, NaN, infinite) gives no point, and the stage does not fail on it.
C12_FiniteMetrics ==
  \A r \in Runs :
    Fetched(r) =>
      \A i \in 1..Len(state[r].metrics) : IsFinite(state[r].metrics[i].value)

\* C13: when user_id is empty or the timeframe has no start or no end, the
\* Metrics Fetcher makes no metrics-store call, adds no points and does not
\* fail; the Metrics Analyzer then leaves stats empty and anomalies empty and
\* does not fail; the prompt carries the fixed no-metrics sentence.
C13_FetchShortCircuit ==
  \A r \in Runs :
    (/\ Fetched(r)
     /\ \/ state[r].user_id = ""
        \/ state[r].timeframe.start = ""
        \/ state[r].timeframe.end = "") =>
      /\ \A i \in 1..Len(calls[r]) : calls[r][i] # "get_user_metrics"
      /\ state[r].metrics = <<>>
      /\ failure[r] # NoFailure => failure[r].stage \notin {"pull_metrics", "analyze_metrics"}
      /\ Len(executed[r]) >= 3 => state[r].stats = <<>> /\ state[r].anomalies = <<>>
      /\ prompt[r].sent =>
            /\ prompt[r].metrics_summary.sentence = NO_METRICS
            /\ prompt[r].metrics_summary.lines = <<>>

\* a run without user_id that went through all six stages and was answered
C13_Witness ==
  \E r \in Runs :
    /\ pc[r] = "done" /\ failure[r] = NoFailure /\ executed[r] = STAGES
    /\ state[r].user_id = ""
    /\ state[r].timeframe.start # "" /\ state[r].timeframe.end # ""
    /\ prompt[r].sent /\ prompt[r].metrics_summary.sentence = NO_METRICS

\* the same for a timeframe without an end
C13_WitnessNoEnd ==
  \E r \in Runs :
    /\ pc[r] = "done" /\ failure[r] = NoFailure /\ executed[r] = STAGES
    /\ state[r].user_id # "" /\ state[r].timeframe.end = ""
    /\ prompt[r].sent /\ prompt[r].metrics_summary.sentence = NO_METRICS

\* question is unset, None, empty or made of whitespace only
BlankQuestion(st) ==
  \/ "question" \notin DOMAIN st
  \/ st.question = NoneV
  \/ \A i \in 1..Len(st.question) : st.question[i] \in Whitespace

\* the run has left the Guidance Retriever, by its update or by an exception
PastRetrieve(r) == Len(executed[r]) >= 3 /\ pc[r] # "retrieve_guidance"

Unset(st, k) == [f \in DOMAIN st \ {k} |-> st[f]]

\* C14: when question is unset, empty or only whitespace, the Guidance
\* Retriever calls neither the embedding nor the vector index, adds no
\* relevant_chunks and no citations, does not fail, and the run goes on to
\* the Safety Screener.
C14_RetrieveShortCircuit ==
  \A r \in Runs :
    /\ (PastRetrieve(r) /\ BlankQuestion(state[r])) =>
         /\ \A i \in 1..Len(calls[r]) : calls[r][i] \notin {"embed_query", "search"}
         /\ hits[r] = <<>>
         /\ state[r].relevant_chunks = <<>> /\ state[r].citations = <<>>
         /\ failure[r] # NoFailure => failure[r].stage # "retrieve_guidance"
         /\ Len(executed[r]) >= 4 /\ executed[r][4] = "retrieve_guidance"
         /\ Len(executed[r]) = 4 => pc[r] = "safety"
    \* the update for the same state with question unset, None or whitespace
    /\ pc[r] = "retrieve_guidance" =>
         \A st \in {Unset(state[r], "question"),
                     [state[r] EXCEPT !.question = NoneV],
                     [state[r] EXCEPT !.question = MsgBlank]} :
           /\ BlankQuestion(st)
           /\ \A found \in SearchResults :
                node_retrieve(st, found) = [relevant_chunks |-> <<>>, citations |-> <<>>]

\* a blank message: the run passed the retriever without a call and finished
C14_Witness ==
  \E r \in Runs :
    /\ pc[r] = "done" /\ failure[r] = NoFailure /\ executed[r] = STAGES
    /\ body[r].message = MsgBlank
    /\ BlankQuestion(state[r])
    /\ \A i \in 1..Len(calls[r]) : calls[r][i] \notin {"embed_query", "search"}
    /\ state[r].relevant_chunks = <<>>

\* the Safety Screener has run and returned
Screened(r) == Len(executed[r]) >= 5 /\ executed[r][5] = "safety"

\* C15: the Safety Screener writes the urgent-care warning iff the lower-cased
\* question contains one of the emergency phrases, and the heart-rate warning
\* iff some anomalies entry is the one of kind hr; the two are independent, so
\* it writes zero, one or two warnings and none twice.
C15_SafetyWarnings ==
  \A r \in Runs :
    Screened(r) =>
      LET w == state[r].safety_warnings
          q == Lower(GetOrStr(state[r], "question"))
          an == state[r].anomalies
      IN /\ (\E i \in 1..Len(w) : w[i] = URGENT_WARNING)
              <=> (\E k \in EMERGENCY_SIGNS : Contains(q, k))
         /\ (\E i \in 1..Len(w) : w[i] = HR_WARNING)
              <=> (\E j \in 1..Len(an) : an[j].kind = "hr")
         /\ \A i \in 1..Len(w) : w[i] \in {URGENT_WARNING, HR_WARNING}
         /\ Len(w) <= 2
         /\ \A i, j \in 1..Len(w) : w[i] = w[j] => i = j

\* "Stroke?" asked with a heart-rate outlier in the window: both warnings
C15_Witness ==
  \E r \in Runs :
    /\ Screened(r)
    /\ state[r].question = <<"S", "t", "r", "o", "k", "e", "?">>
    /\ \E j \in 1..Len(state[r].anomalies) : state[r].anomalies[j].kind = "hr"
    /\ state[r].safety_warnings = <<URGENT_WARNING, HR_WARNING>>

\* an outlier of kind hrv alone raises no heart-rate warning
C15_WitnessHrv ==
  \E r \in Runs :
    /\ Screened(r)
    /\ \E j \in 1..Len(state[r].anomalies) : state[r].anomalies[j].kind = "hrv"
    /\ state[r].safety_warnings = <<>>

\* what one step does to the conversation of run r
ConversationStep(r) ==
  LET old == GetOrList(state[r], "messages")
      new == GetOrList(state'[r], "messages")
  IN IF pc[r] = "idle"
     THEN pc'[r] # "idle" =>
            new = _to_lc_history(fetch_context(convStore, body'[r].user_id,
                                               max_context_messages))
                    \o <<HumanMessage(body'[r].message)>>
     ELSE IF pc[r] = "answer" /\ pc'[r] = "END"
     THEN /\ new = old \o <<AIMessage(state'[r].answer)>>
          /\ \E c \in Completions :
               state'[r].answer = Strip(c) \o <<"\n", "\n">> \o DISCLAIMER
     ELSE new = old

\* C16: the conversation of a run only grows: the first five stages and
\* every failing stage leave it as the caller supplied it, the Answer
\* Composer appends one assistant entry whose text is the answer field (the
\* trimmed completion, a blank line, the disclaimer), and nothing else
\* changes it; a completed run ends with the supplied conversation, whose
\* last entry is the caller's message, followed by that entry.
C16_ConversationGrows ==
  /\ [](\A r \in Runs :
          IF executed[r] = STAGES
          THEN LET msgs == state[r].messages
               IN /\ Len(msgs) >= 2
                  /\ msgs[Len(msgs)] = AIMessage(state[r].answer)
                  /\ msgs[Len(msgs) - 1] = HumanMessage(body[r].message)
          ELSE pc[r] # "idle" =>
                 LET msgs == state[r].messages
                 IN Len(msgs) >= 1 /\ msgs[Len(msgs)] = HumanMessage(body[r].message))
  /\ [][\A r \in Runs : ConversationStep(r)]_vars

\* a completed run on a stored history: history, the message, the answer
C16_Witness ==
  \E r \in Runs :
    /\ pc[r] = "done" /\ failure[r] = NoFailure /\ executed[r] = STAGES
    /\ Len(state[r].messages) >= 4
    /\ state[r].messages[Len(state[r].messages)].type = "ai"
    /\ state[r].messages[Len(state[r].messages)].content = state[r].answer
    /\ state[r].answer = <<"o", "k", "\n", "\n">> \o DISCLAIMER

\* request r has just been served by update_metric_config
ConfigServed(r) ==
  /\ mode'[r] = "config"
  /\ <<pc[r], body[r], response[r], settings>> # <<pc'[r], body'[r], response'[r], settings'>>

\* C17: an update whose requested defaults are not all among its requested
\* available kinds is answered with an error and changes neither the stored
\* defaults nor the stored available kinds.
C17_RejectedUpdate ==
  [][\A r \in Runs :
       (/\ ConfigServed(r)
        /\ body'[r].default_metric_kinds # NoneV
        /\ body'[r].available_metric_kinds # NoneV
        /\ ~(ToSet(body'[r].default_metric_kinds)
               \subseteq ToSet(body'[r].available_metric_kinds)))
       => /\ response'[r].status = "error"
          /\ settings' = settings]_vars

\* request s has just been served by index_search
SearchServed(s) ==
  /\ mode'[s] = "search"
  /\ <<mode[s], body[s], response[s]>> # <<mode'[s], body'[s], response'[s]>>

\* request u is an upsert that has returned its ids
Upserted(u) == mode[u] = "upsert" /\ pc[u] = "done" /\ response[u].status = "ok"

\* C18: an item with text t and explicit metadata m has been upserted; the
\* next search, filtered on one of the fields of m and asking for at least
\* as many results as there are points, returns a result with text t and
\* metadata m.
C18_UpsertSearchRoundTrip ==
  [][\A u, s \in Runs :
       (Upserted(u) /\ SearchServed(s)) =>
         \A i \in 1..Len(body[u].items) :
           LET item == body[u].items[i]
               where == body'[s].where
           IN (/\ item.metadata # NoDict
               /\ UsesFilter(where)
               /\ where.key \in DOMAIN item.metadata
               /\ item.metadata[where.key] = where.value
               /\ body'[s].k >= Cardinality(DOMAIN collection.points))
              => /\ response'[s].status = "ok"
                 /\ \E j \in 1..Len(response'[s].results) :
                      /\ response'[s].results[j].text = item.text
                      /\ response'[s].results[j].metadata = item.metadata]_vars

\* the updates stage `name` can return on the state st alone, given the hits
\* the run's own search returned and whatever its metrics store and language
\* model answer
SoloUpdates(name, st, found) ==
  CASE name = "parse_user" -> {node_parse_user(st)}
    [] name = "pull_metrics" -> {node_pull_metrics(st, docs) : docs \in MetricDocs}
    [] name = "analyze_metrics" -> {node_analyze(st)}
    [] name = "retrieve_guidance" -> {node_retrieve(st, found)}
    [] name = "safety" -> {node_safety(st)}
    [] name = "answer" -> {node_answer(st, resp) : resp \in Completions}

\* what one step may do to the state record of run r
SoloStep(r) ==
  IF pc[r] = "idle"
  THEN pc'[r] # "idle" =>
         state'[r] = Merge(EmptyDict, initial_state(convStore, settings, body'[r]))
  ELSE IF executed'[r] = executed[r]
  THEN state'[r] = state[r]
  ELSE /\ executed'[r] = Append(executed[r], pc[r])
       /\ \E upd \in SoloUpdates(pc[r], state[r], hits'[r]) :
            state'[r] = Merge(state[r], upd)

\* everything the program keeps for request r
PerRun(r) ==
  <<pc[r], mode[r], body[r], state[r], executed[r], events[r], final_answer[r],
    response[r], failure[r], calls[r], hits[r], prompt[r]>>

\* C19: under every interleaving of the steps of two concurrent runs, the
\* state record of a run changes only by the run's own stages, each time to
\* what that stage returns on the run's own record and the answers of its
\* own collaborator calls, so the final state is the one the run produces
\* alone; a step of one run leaves everything kept for the other untouched.
C19_RunIsolation ==
  /\ [](\A r \in Runs :
          pc[r] # "idle" =>
            /\ state[r].user_id = body[r].user_id
            /\ Len(executed[r]) >= 1 => state[r].question = Strip(body[r].message))
  /\ [][\A r \in Runs : SoloStep(r)]_vars
  /\ [][\A r, q \in Runs : (r # q /\ PerRun(r)' # PerRun(r)) => PerRun(q)' = PerRun(q)]_vars

\* both runs in flight: run 1 holds its metrics and no chunks, run 2 holds
\* its chunks and no metrics
C19_Witness ==
  /\ pc[1] = "answer" /\ pc[2] = "answer"
  /\ state[1].metrics # <<>> /\ state[1].relevant_chunks = <<>>
  /\ state[2].metrics = <<>> /\ state[2].relevant_chunks # <<>>
  /\ state[1].user_id = "u1" /\ state[2].user_id = ""

\* the kind list the handler hands to the graph for request r
SuppliedKinds(r) ==
  IF body[r].metric_kinds # <<>> THEN body[r].metric_kinds
  ELSE settings.default_metric_kinds

\* C20: once the update of the Question Extractor is merged, metric_kinds is
\* the kind list the run was started with, each kind as often as it was
\* supplied: the first stage adds, repeats and removes nothing.
C20_MetricKindsKept ==
  \A r \in Runs :
    (mode[r] \in {"sync", "stream"} /\ Len(executed[r]) >= 1) =>
      state[r].metric_kinds = SuppliedKinds(r)

\* the blocks of the chunks, in list order
Blocks(chunks) == [i \in 1..Len(chunks) |-> PartOf(chunks[i])]

\* C21: the blocks of the context are the blocks of a prefix of
\* relevant_chunks, in list order and each with its whole text; the prefix
\* fits the budget and the block of the first chunk left out would take the
\* cumulative count over it, so that nothing after it is included.
C21_ContextIsPrefix ==
  \A r \in Runs :
    prompt[r].sent =>
      LET blocks == Blocks(GetOrList(state[r], "relevant_chunks"))
          pieces == prompt[r].context.pieces
          n == Len(pieces)
      IN /\ n <= Len(blocks)
         /\ pieces = SubSeq(blocks, 1, n)
         /\ \A i \in 1..n : pieces[i].text = state[r].relevant_chunks[i].text
         /\ SumPartLen(pieces) <= max_chars
         /\ n < Len(blocks) => SumPartLen(pieces) + PartLen(blocks[n + 1]) > max_chars

\* a block over the budget comes first and a block that would fit follows
C21_Witness ==
  \E r \in Runs :
    /\ prompt[r].sent
    /\ Len(GetOrList(state[r], "relevant_chunks")) = 2
    /\ state[r].relevant_chunks[1].text = "T4000"
    /\ state[r].relevant_chunks[2].text = "T10"
    /\ prompt[r].context.pieces = <<>>

\* the second block is the one that does not fit: the first is kept whole
C21_WitnessCut ==
  \E r \in Runs :
    /\ prompt[r].sent
    /\ Len(GetOrList(state[r], "relevant_chunks")) = 2
    /\ state[r].relevant_chunks[1].text = "T1981"
    /\ state[r].relevant_chunks[2].text = "T4000"
    /\ Len(prompt[r].context.pieces) = 1
    /\ prompt[r].context.len = 2000

\* C22: an existing collection is never dropped or re-created, and no
\* stored point disappears (no request of the specification deletes points).
C22_CollectionKept ==
  [][collection.exists =>
       /\ collection'.exists
       /\ \A id \in DOMAIN collection.points :
            id \in DOMAIN collection'.points]_vars

\* the size of the group a flag is about
FlaggedGroup(r, j) == GroupIdx(state[r].metrics, state[r].anomalies[j].kind)

\* C23 as stated: no anomaly is flagged for a group of fewer than 8 points,
\* whatever the values are.
C23_NoFlagBelowEight ==
  \A r \in Runs :
    JustAnalyzed(r) =>
      \A j \in 1..Len(state[r].anomalies) : Cardinality(FlaggedGroup(r, j)) >= 8

\* C23, amended: no anomaly is flagged for a group of fewer than 8 points
\* whose values are of ordinary magnitude, where the mean and the standard
\* deviation carry no rounding error that matters.
C23_NoFlagBelowEightOrdinary ==
  \A r \in Runs :
    JustAnalyzed(r) =>
      \A j \in 1..Len(state[r].anomalies) :
        (\A i \in FlaggedGroup(r, j) : state[r].metrics[i].value[1] = "num")
          => Cardinality(FlaggedGroup(r, j)) >= 8

\* the values 60, 62, 200 have been analysed: statistics, and no flag
C23_Witness ==
  \E r \in Runs :
    /\ JustAnalyzed(r)
    /\ [i \in 1..Len(state[r].metrics) |-> state[r].metrics[i].value]
         = <<Num(60), Num(62), Num(200)>>
    /\ Len(state[r].stats) = 1 /\ state[r].stats[1].n = 3
    /\ state[r].anomalies = <<>>

\* seven ordinary values, six equal and one apart: the extreme case, no flag
C23_WitnessSeven ==
  \E r \in Runs :
    /\ JustAnalyzed(r)
    /\ [i \in 1..Len(state[r].metrics) |-> state[r].metrics[i].value]
         = [i \in 1..7 |-> IF i = 7 THEN Num(3) ELSE Num(0)]
    /\ state[r].anomalies = <<>>

\* eight ordinary values, seven equal and one apart: the flag is raised
C23_WitnessEight ==
  \E r \in Runs :
    /\ JustAnalyzed(r)
    /\ [i \in 1..Len(state[r].metrics) |-> state[r].metrics[i].value]
         = [i \in 1..8 |-> IF i = 8 THEN Num(3) ELSE Num(0)]
    /\ Len(state[r].anomalies) = 1

\* the two turns a request persists: its message, then a reply
TurnsOf(r) ==
  {<<[user_id |-> body[r].user_id, role |-> "user", content |-> body[r].message],
     [user_id |-> body[r].user_id, role |-> "assistant", content |-> reply]>> :
     reply \in {final_answer[r], Reply(state[r])}}

\* C24: when a chat request is over, the conversation store has gained both
\* of its turns, the user turn followed by the assistant turn, or no turn.
C24_BothTurnsOrNone ==
  \A r \in Runs :
    (pc[r] = "done" /\ mode[r] \in {"sync", "stream"}) =>
      \E old \in StoredConversations :
        \/ convStore = old
        \/ \E turns \in TurnsOf(r) : convStore = old \o turns

\* the assistant turn of request r is in the store
Persisted(r) ==
  /\ mode[r] \in {"sync", "stream"}
  /\ pc[r] \in {"respond", "finally", "done"}
  /\ failure[r] = NoFailure

OwnUserTurn(r) == [user_id |-> body[r].user_id, role |-> "user", content |-> body[r].message]

\* C25: the conversation a run was given is the most recent stored turns of
\* its user that precede the request's own user turn in the store, followed
\* by that user turn (the run has added its answer after them).
C25_ConversationIsStoredHistory ==
  \A r \in Runs :
    Persisted(r) =>
      \E i \in 1..Len(convStore) :
        /\ convStore[i] = OwnUserTurn(r)
        /\ state[r].messages =
             _to_lc_history(fetch_context(SubSeq(convStore, 1, i - 1), body[r].user_id,
                                          max_context_messages))
               \o <<HumanMessage(body[r].message), AIMessage(state[r].answer)>>

\* C26: the stored default metric kinds are a subset of the stored available
\* metric kinds, after any sequence of configuration updates.
C26_DefaultsAvailable ==
  ToSet(settings.default_metric_kinds) \subseteq ToSet(settings.available_metric_kinds)

\* C27: in every prompt sent, entry [i] of the source list is citations[i]
\* and the passage of that citation, relevant_chunks[i], is a block of the
\* context.
C27_SourcesInContext ==
  \A r \in Runs :
    prompt[r].sent =>
      LET sources == prompt[r].sources
          pieces == prompt[r].context.pieces
          cites == GetOrList(state[r], "citations")
          chunks == GetOrList(state[r], "relevant_chunks")
      IN \A i \in 1..Len(sources) :
           /\ sources[i].number = i
           /\ i <= Len(cites) /\ sources[i].score = cites[i].score
           /\ i <= Len(chunks) /\ i <= Len(pieces)
           /\ pieces[i] = PartOf(chunks[i])

====
